---- MODULE Spec2Model ----
(***************************************************************************)
(* Model of the MeuBoleto AI dashboard: the in-memory bill list of         *)
(* pages/Index.tsx, the confirmation dialog of components/BillsList.tsx    *)
(* and the add-bill dialog (AddBillModal) of main.tsx.                     *)
(*                                                                         *)
(* Conventions                                                             *)
(*  - a JavaScript object is a function from its present keys to values;   *)
(*    an absent optional field is a key that is not in DOMAIN;             *)
(*  - a nullable React state is NULL (<<>>) or Some(v) (<<v>>);            *)
(*  - an instant is a number of clock ticks, a calendar date ("YYYY-MM-DD")*)
(*    is a day number, months have MonthLen days;                          *)
(*  - an amount of money is a whole number of centavos;                    *)
(*  - the text of the amount and barcode inputs is a sequence of           *)
(*    one-character strings, every other text is a string.                 *)
(***************************************************************************)
EXTENDS Integers, Sequences, FiniteSets, TLC

VARIABLES
    bills,                  \* Index: useState<Bill[]>(mockBills)
    confirmDialog,          \* BillsList: one dialog state per rendered list
    selectedPaymentMethod,  \* BillsList: one selection per rendered list
    selectedCategory,       \* Index: the category filter, null when off
    selectedMonth,          \* Index: the month filter, null when off
    now,                    \* the wall clock (Date.now()), in ticks
    apiKey,                 \* localStorage "finanscan-settings".aiApiKey
    isOpen,                 \* AddBillModal state
    beneficiary,
    amount,
    dueDate,
    category,
    barcode,
    selectedFile,
    uploadMode,
    isAnalyzing,
    analysisComplete,
    aiSummary,
    analysisResult,
    inFlight,               \* analyzeBillWithAI promises not yet settled
    content,                \* parseAIResponse: the reply of the provider
    parsed,                 \* parseAIResponse: what the call returned or threw
    reportIsOpen,           \* ReportModal state: isOpen
    startDate,              \* ReportModal: "" or the date of the input
    endDate,
    isGenerating,
    savedReport,            \* ReportModal: the document of the latest doc.save
    reportEffects,          \* ReportModal: what the latest generateReport did
    badges,                 \* BillsList: the status badges of the latest render
    billsTable,             \* public.bills: its rows
    statement,              \* public.bills: the latest statement and its outcome
    settings,               \* localStorage: the item "finanscan-settings"
    analysisCall,           \* analyzeBillWithAI: the arguments of the call
    requests,               \* analyzeBillWithAI: the HTTP requests it issued
    settled,                \* analyzeBillWithAI: how its promise settled
    pdfCall,                \* convertPdfToJpeg: its file and what the browser does
    conversion,             \* convertPdfToJpeg: the ConversionResult returned
    user,                   \* AuthProvider: useState<User | null>(null)
    session,                \* AuthProvider: useState<Session | null>(null)
    loading,                \* AuthProvider: useState(true)
    isPasswordRecovery,     \* AuthProvider: useState(false)
    sessionLookup,          \* AuthProvider: the getSession() promise
    route,                  \* BrowserRouter: the location rendered
    effectsPending,         \* React: effects of the last commit not yet run
    authPage,               \* Auth: which mounting of the page is on screen
    isLoading,              \* Auth: useState(false), of that mounting
    authCalls,              \* Auth: submissions awaiting their auth call
    picked,                 \* per list: the method chosen since its dialog opened
    last,                   \* the event handled by the latest step
    steps,                  \* number of events handled so far
    budget                  \* number of events explored

filterVars == <<selectedCategory, selectedMonth>>
parseVars == <<content, parsed>>
reportVars == <<reportIsOpen, startDate, endDate, isGenerating, savedReport,
                reportEffects>>
storeVars == <<billsTable, statement>>
providerVars == <<settings, analysisCall, requests, settled>>
pdfVars == <<pdfCall, conversion>>
authVars == <<user, session, loading, isPasswordRecovery, sessionLookup, route,
              effectsPending, authPage, isLoading, authCalls>>
libVars == <<providerVars, pdfVars, authVars>>
pageSideVars == <<reportVars, storeVars, badges>>
sideVars == <<pageSideVars, libVars>>
restVars == <<parseVars, sideVars>>
listVars == <<confirmDialog, selectedPaymentMethod>>
formVars == <<beneficiary, amount, dueDate, category, barcode>>
fileVars == <<selectedFile, isAnalyzing, analysisComplete, aiSummary,
              analysisResult>>
modalVars == <<isOpen, formVars, fileVars, uploadMode, inFlight>>
pageVars == <<bills, filterVars, listVars, picked, now, apiKey, modalVars>>
vars == <<bills, filterVars, listVars, picked, now, apiKey, modalVars,
          restVars, last, steps, budget>>

----------------------------------------------------------------------------
(* Bounds of the model *)

MaxSteps == 6         \* events explored on the whole page
MaxDashboardSteps == 7 \* events explored on the two lists alone
MaxCalls == 2         \* handler calls explored
MaxViewSteps == 4     \* events explored on the filters and the lists
MaxIntakeSteps == 6   \* events explored on the add-bill dialog
MaxReportSteps == 5   \* events explored on the report dialog
MaxBadgeSteps == 4    \* events explored on the lists with their badges
MaxStatements == 4    \* statements run on the bills table
MaxRows == 3          \* rows ever inserted into the bills table
ClockSpan == 1        \* clock ticks that may elapse
TicksPerDay == 2      \* resolution of the clock
MonthLen == 31        \* days per calendar month
TimezoneOffset == 1   \* local time minus UTC, in ticks
StartNow == 1799      \* the clock reading when the page is constructed

MaxNow == StartNow + ClockSpan

----------------------------------------------------------------------------
(* JavaScript values *)

NULL == <<>>
Some(v) == <<v>>
UNDEFINED == "undefined"

\* !s for a string argument that may be undefined
Falsy(s) == s = "" \/ s = UNDEFINED

\* delete obj[key]
DeleteKey(obj, key) == [k \in DOMAIN obj \ {key} |-> obj[k]]

Has(obj, key) == key \in DOMAIN obj

\* new Date().toISOString().split('T')[0]: the UTC calendar date of an instant
toISODate(t) == t \div TicksPerDay

\* new Date(year, month, day) and the calendar picker: local midnight
localMidnight(day) == day * TicksPerDay - TimezoneOffset

\* 2024-07-01 is day 0
Date20240725 == 24
Date20240730 == 29
Date20240810 == 40
Date20240815 == 45
Date20240818 == 48
Date20240820 == 50

----------------------------------------------------------------------------
(* pages/Index.tsx *)

mockBills ==
    << [id |-> 1, beneficiary |-> "Enel Energia", amount |-> 24550,
        dueDate |-> Date20240820, status |-> "pending",
        category |-> "Energia"],
       [id |-> 2, beneficiary |-> "Copasa", amount |-> 8930,
        dueDate |-> Date20240818, status |-> "pending",
        category |-> "Agua"],
       [id |-> 3, beneficiary |-> "Condominio Residencial", amount |-> 125000,
        dueDate |-> Date20240815, status |-> "pending",
        category |-> "Condominio"],
       [id |-> 4, beneficiary |-> "Internet Vivo", amount |-> 9990,
        dueDate |-> Date20240725, status |-> "paid",
        category |-> "Internet", paidAt |-> Date20240815,
        paymentMethod |-> "PIX"],
       [id |-> 5, beneficiary |-> "Supermercado Extra", amount |-> 45678,
        dueDate |-> Date20240730, status |-> "paid",
        category |-> "Mercado", paidAt |-> Date20240810,
        paymentMethod |-> "Transferencia Bancaria"] >>

PaymentMethods == {"PIX", "Cartao de Credito", "Transferencia Bancaria"}

\* updatedBill without "delete updatedBill.paymentMethod"
updatedBillKeepingMethod(bill, newStatus, paymentMethod, t) ==
    LET updated == ("status" :> newStatus) @@ bill
    IN  IF newStatus = "paid"
        THEN LET withPaidAt == ("paidAt" :> toISODate(t)) @@ updated
             IN  IF ~Falsy(paymentMethod)
                 THEN ("paymentMethod" :> paymentMethod) @@ withPaidAt
                 ELSE withPaidAt
        ELSE DeleteKey(updated, "paidAt")

\* updatedBill with "updatedBill.paidAt = bill.paidAt || today"
updatedBillKeepingPaidAt(bill, newStatus, paymentMethod, t) ==
    LET updated == ("status" :> newStatus) @@ bill
    IN  IF newStatus = "paid"
        THEN LET withPaidAt ==
                     IF Has(bill, "paidAt") THEN updated
                     ELSE ("paidAt" :> toISODate(t)) @@ updated
             IN  IF ~Falsy(paymentMethod)
                 THEN ("paymentMethod" :> paymentMethod) @@ withPaidAt
                 ELSE withPaidAt
        ELSE DeleteKey(DeleteKey(updated, "paidAt"), "paymentMethod")

\* the body of the map callback of handleBillStatusChange for the bill
\* whose id matches
updatedBill(bill, newStatus, paymentMethod, t) ==
    LET updated == ("status" :> newStatus) @@ bill
    IN  IF newStatus = "paid"
        THEN LET withPaidAt == ("paidAt" :> toISODate(t)) @@ updated
             IN  IF ~Falsy(paymentMethod)
                 THEN ("paymentMethod" :> paymentMethod) @@ withPaidAt
                 ELSE withPaidAt
        ELSE DeleteKey(DeleteKey(updated, "paidAt"), "paymentMethod")

handleBillStatusChange(prev, billId, newStatus, paymentMethod, t) ==
    [i \in 1..Len(prev) |->
        IF prev[i].id = billId
        THEN updatedBill(prev[i], newStatus, paymentMethod, t)
        ELSE prev[i]]

handleDeleteBill(prev, billId) ==
    SelectSeq(prev, LAMBDA bill : bill.id # billId)

\* handleAddBill with status: "paid"
handleAddBillAsPaid(prev, newBill, t) ==
    Append(prev, ("id" :> t) @@ ("status" :> "paid") @@ newBill)

\* { ...newBill, id: Date.now().toString(), status: "pending" }
handleAddBill(prev, newBill, t) ==
    Append(prev, ("id" :> t) @@ ("status" :> "pending") @@ newBill)

----------------------------------------------------------------------------
(* The derived statistics of pages/Index.tsx *)

\* A JavaScript number n >= 0 is the natural number n * 2^63, written in
\* four limbs of 21 bits, limb 0 the least significant (numbers below 2^21
\* that are at least 2^-10 or have few binary places).
LimbBits == 21
Limb == 2 ^ LimbBits
Limbs == 0..3

zeroNumber == [i \in Limbs |-> 0]

\* number of bits of a limb: 0 for 0, k when 2^(k-1) <= v < 2^k
limbLength(v) ==
    CHOOSE k \in 0..LimbBits : v < 2 ^ k /\ (k = 0 \/ v >= 2 ^ (k - 1))

bitLength(n) ==
    IF n = zeroNumber THEN 0
    ELSE LET top == CHOOSE i \in Limbs :
                        n[i] # 0 /\ \A j \in Limbs : j > i => n[j] = 0
         IN  LimbBits * top + limbLength(n[top])

\* the exact sum of two numbers
exactAdd(a, b) ==
    LET s0 == a[0] + b[0]
        s1 == a[1] + b[1] + s0 \div Limb
        s2 == a[2] + b[2] + s1 \div Limb
        s3 == a[3] + b[3] + s2 \div Limb
    IN  (0 :> s0 % Limb) @@ (1 :> s1 % Limb) @@ (2 :> s2 % Limb) @@ (3 :> s3)

\* IEEE-754 binary64 rounding (to nearest, ties to even) of the exact value
\* n + f with 0 <= f < 1 and sticky = (f > 0): 53 significant bits are kept
roundToDouble(n, sticky) ==
    LET r == bitLength(n) - 53
    IN  IF r <= 0 THEN n
        ELSE
        LET q == r \div LimbBits
            s == r % LimbBits
            cut == n[q] % (2 ^ s)
            lowerZero(k) == ~sticky /\ \A j \in Limbs : j < k => n[j] = 0
            \* -1, 0, 1: the part dropped is below, at, above one half
            cmp == IF s >= 1
                   THEN IF cut > 2 ^ (s - 1) THEN 1
                        ELSE IF cut < 2 ^ (s - 1) THEN -1
                        ELSE IF lowerZero(q) THEN 0 ELSE 1
                   ELSE IF n[q - 1] > Limb \div 2 THEN 1
                        ELSE IF n[q - 1] < Limb \div 2 THEN -1
                        ELSE IF lowerZero(q - 1) THEN 0 ELSE 1
            odd == (n[q] \div (2 ^ s)) % 2 = 1
            down == [i \in Limbs |-> IF i < q THEN 0
                                     ELSE IF i = q THEN n[q] - cut ELSE n[i]]
            ulp == [i \in Limbs |-> IF i = q THEN 2 ^ s ELSE 0]
        IN  IF cmp = 1 \/ (cmp = 0 /\ odd) THEN exactAdd(down, ulp) ELSE down

\* a + b of two JavaScript numbers
floatAdd(a, b) == roundToDouble(exactAdd(a, b), FALSE)

\* the JavaScript number nearest to centavos / 100: the value of a decimal
\* literal and of parseFloat.  A bill's amount is kept as its centavos.
toDouble(centavos) ==
    LET q3 == centavos \div 100
        c2 == (centavos % 100) * Limb
        q2 == c2 \div 100
        c1 == (c2 % 100) * Limb
        q1 == c1 \div 100
        c0 == (c1 % 100) * Limb
        q0 == c0 \div 100
    IN  roundToDouble((0 :> q0) @@ (1 :> q1) @@ (2 :> q2) @@ (3 :> q3),
                      c0 % 100 # 0)

RECURSIVE SumAmounts(_)
\* reduce((sum, bill) => sum + bill.amount, 0)
SumAmounts(s) ==
    IF s = <<>> THEN zeroNumber
    ELSE floatAdd(SumAmounts(SubSeq(s, 1, Len(s) - 1)),
                  toDouble(s[Len(s)].amount))

\* new Date("YYYY-MM-DD"): midnight UTC of that date
parseISODate(day) == day * TicksPerDay

\* getMonth() and getFullYear() of an instant, in local time, as one number
localMonth(t) == ((t + TimezoneOffset) \div TicksPerDay) \div MonthLen

allPendingBills(bs) == SelectSeq(bs, LAMBDA bill : bill.status = "pending")

paidBillsOfMonth(bs, t) ==
    SelectSeq(bs, LAMBDA bill :
        /\ bill.status = "paid"
        /\ Has(bill, "paidAt")
        /\ localMonth(parseISODate(bill.paidAt)) = localMonth(t))

allPaidBills(bs) == SelectSeq(bs, LAMBDA bill : bill.status = "paid")

upcomingBills(bs, t) ==
    SelectSeq(allPendingBills(bs), LAMBDA bill :
        parseISODate(bill.dueDate) <= t + 7 * TicksPerDay)

stats(bs, t) ==
    [ totalPending     |-> SumAmounts(allPendingBills(bs)),
      totalPaid        |-> SumAmounts(paidBillsOfMonth(bs, t)),
      totalPaidOverall |-> SumAmounts(allPaidBills(bs)),
      upcomingCount    |-> Len(upcomingBills(bs, t)) ]

\* the key under which categoryMap files a bill
categoryKey(bill) ==
    IF Has(bill, "category") THEN bill.category ELSE UNDEFINED

\* the position of the entry of a category in the map, 0 when it has none
entryIndex(entries, key) ==
    IF \E k \in 1..Len(entries) : entries[k].category = key
    THEN CHOOSE k \in 1..Len(entries) : entries[k].category = key
    ELSE 0

\* one round of the forEach of categoryData: get the current entry or
\* { amount: 0, count: 0 }, set the entry with the bill added
categoryMapSet(entries, bill) ==
    LET key == categoryKey(bill)
        k == entryIndex(entries, key)
        current == IF k = 0 THEN [amount |-> zeroNumber, count |-> 0]
                   ELSE entries[k]
        entry == [category |-> key,
                  amount |-> floatAdd(current.amount, toDouble(bill.amount)),
                  count |-> current.count + 1]
    IN  IF k = 0 THEN Append(entries, entry)
        ELSE [entries EXCEPT ![k] = entry]

\* categoryData: the entries of the map in insertion order
RECURSIVE categoryData(_)
categoryData(bs) ==
    IF bs = <<>> THEN <<>>
    ELSE categoryMapSet(categoryData(SubSeq(bs, 1, Len(bs) - 1)), bs[Len(bs)])

----------------------------------------------------------------------------
(* components/BillsList.tsx *)

\* the two lists rendered by Index, named by their titles
Lists == {"Contas a Pagar", "Contas Pagas"}

showCheckbox(list) == list = "Contas a Pagar"

\* the months of the payment history chart, and monthMap
Months == {"Fev", "Mar", "Abr", "Mai", "Jun", "Jul"}

monthMap(month) ==
    CASE month = "Jan" -> 0 [] month = "Fev" -> 1 [] month = "Mar" -> 2
      [] month = "Abr" -> 3 [] month = "Mai" -> 4 [] month = "Jun" -> 5
      [] month = "Jul" -> 6 [] month = "Ago" -> 7 [] month = "Set" -> 8
      [] month = "Out" -> 9 [] month = "Nov" -> 10 [] month = "Dez" -> 11

\* getMonth() of an instant, in local time; day 0 is 2024-07-01
getMonth(t) == (6 + localMonth(t)) % 12

filteredBillsByMonth(bs, month) ==
    IF month = NULL THEN bs
    ELSE SelectSeq(bs, LAMBDA bill :
             getMonth(parseISODate(bill.dueDate)) = monthMap(month[1]))

filteredBills(bs, cat, month) ==
    LET result == IF month # NULL THEN filteredBillsByMonth(bs, month) ELSE bs
    IN  IF cat # NULL /\ ~Falsy(cat[1])
        THEN SelectSeq(result, LAMBDA bill :
                 Has(bill, "category") /\ bill.category = cat[1])
        ELSE result

\* the comparators of the two sorts: the difference of the due instants,
\* a minus b for ascending (direction 1), b minus a for descending (-1)
compareDueDate(a, b, direction) ==
    direction * (parseISODate(a.dueDate) - parseISODate(b.dueDate))

\* x put into a sorted sequence behind every element that does not compare
\* greater than it
insertSorted(sorted, x, direction) ==
    LET notAfter == { k \in 1..Len(sorted) :
                        compareDueDate(sorted[k], x, direction) <= 0 }
        at == IF notAfter = {} THEN 0
              ELSE CHOOSE k \in notAfter : \A j \in notAfter : j <= k
    IN  SubSeq(sorted, 1, at) \o <<x>> \o SubSeq(sorted, at + 1, Len(sorted))

\* Array.prototype.sort with a comparator: a stable sort
RECURSIVE sortByDueDate(_, _)
sortByDueDate(s, direction) ==
    IF s = <<>> THEN <<>>
    ELSE insertSorted(sortByDueDate(SubSeq(s, 1, Len(s) - 1), direction),
                      s[Len(s)], direction)

\* pendingBills with the comparator of paidBills
pendingBillsDescending(bs, cat, month) ==
    sortByDueDate(SelectSeq(filteredBills(bs, cat, month),
                            LAMBDA bill : bill.status = "pending"), -1)

pendingBills(bs, cat, month) ==
    sortByDueDate(SelectSeq(filteredBills(bs, cat, month),
                            LAMBDA bill : bill.status = "pending"), 1)

paidBills(bs, cat, month) ==
    sortByDueDate(SelectSeq(filteredBills(bs, cat, month),
                            LAMBDA bill : bill.status = "paid"), -1)

\* the bills prop of a list: pendingBills and paidBills of Index
billsOf(list, bs) ==
    IF list = "Contas a Pagar"
    THEN pendingBills(bs, selectedCategory, selectedMonth)
    ELSE paidBills(bs, selectedCategory, selectedMonth)

NoBillId == 0

closedDialog ==
    [isOpen |-> FALSE, billId |-> NoBillId, billName |-> "", action |-> "pay"]

\* the controls rendered for one bill of a list
actionsOffered(list, bill) ==
    (IF showCheckbox(list) /\ bill.status = "pending" THEN {"pay"} ELSE {})
    \cup (IF bill.status = "paid" THEN {"unpay"} ELSE {})
    \cup {"delete"}

\* a confirm button without the disabled attribute
confirmNeverDisabled(dialog, method) == FALSE

\* the disabled attribute of the confirm button
confirmDisabled(dialog, method) == dialog.action = "pay" /\ method = ""

\* the callback handleConfirmAction invokes, with its arguments
confirmCall(dialog, method) ==
    IF dialog.action = "delete"
    THEN [fn |-> "onBillDelete", billId |-> dialog.billId,
          newStatus |-> "", paymentMethod |-> UNDEFINED]
    ELSE [fn |-> "onBillStatusChange", billId |-> dialog.billId,
          newStatus |-> IF dialog.action = "pay" THEN "paid" ELSE "pending",
          paymentMethod |-> IF dialog.action = "pay" THEN method
                            ELSE UNDEFINED]

\* Index passes handleDeleteBill and handleBillStatusChange as the callbacks
calledBack(prev, call, t) ==
    IF call.fn = "onBillDelete"
    THEN handleDeleteBill(prev, call.billId)
    ELSE handleBillStatusChange(prev, call.billId, call.newStatus,
                                call.paymentMethod, t)

----------------------------------------------------------------------------
(* Events *)

Event(op, billId, arg, method) ==
    [op |-> op, billId |-> billId, arg |-> arg, method |-> method]

\* every dialog of the page is modal: while one is open the rest of the
\* page takes no input
noDialogOpen ==
    /\ ~isOpen
    /\ ~reportIsOpen
    /\ \A l \in Lists : ~confirmDialog[l].isOpen

Tick ==
    /\ now < MaxNow
    /\ now' = now + 1
    /\ last' = Event("tick", NoBillId, "", "")
    /\ UNCHANGED <<bills, filterVars, listVars, picked, apiKey, modalVars,
                   restVars, steps, budget>>

OpenConfirmDialog(list, i, action) ==
    /\ steps < budget
    /\ noDialogOpen
    /\ i \in 1..Len(billsOf(list, bills))
    /\ LET bill == billsOf(list, bills)[i]
       IN  /\ action \in actionsOffered(list, bill)
           /\ confirmDialog' = [confirmDialog EXCEPT ![list] =
                 [isOpen |-> TRUE, billId |-> bill.id,
                  billName |-> bill.beneficiary, action |-> action]]
           /\ last' = Event("openConfirmDialog", bill.id, action, "")
    /\ selectedPaymentMethod' = [selectedPaymentMethod EXCEPT ![list] = ""]
    /\ picked' = [picked EXCEPT ![list] = ""]
    /\ steps' = steps + 1
    /\ UNCHANGED <<budget, filterVars, restVars>>
    /\ UNCHANGED <<bills, now, apiKey, modalVars>>

SelectPaymentMethod(list, method) ==
    /\ steps < budget
    /\ confirmDialog[list].isOpen
    /\ confirmDialog[list].action = "pay"
    /\ selectedPaymentMethod' = [selectedPaymentMethod EXCEPT ![list] = method]
    /\ picked' = [picked EXCEPT ![list] = method]
    /\ last' = Event("setSelectedPaymentMethod", confirmDialog[list].billId,
                     "", method)
    /\ steps' = steps + 1
    /\ UNCHANGED <<budget, filterVars, restVars>>
    /\ UNCHANGED <<bills, confirmDialog, now, apiKey, modalVars>>

CloseDialog(list) ==
    /\ steps < budget
    /\ confirmDialog[list].isOpen
    /\ confirmDialog' = [confirmDialog EXCEPT ![list] = closedDialog]
    /\ selectedPaymentMethod' = [selectedPaymentMethod EXCEPT ![list] = ""]
    /\ last' = Event("closeDialog", confirmDialog[list].billId,
                     confirmDialog[list].action, "")
    /\ steps' = steps + 1
    /\ UNCHANGED <<budget, filterVars, restVars>>
    /\ UNCHANGED <<bills, picked, now, apiKey, modalVars>>

ConfirmAction(list) ==
    /\ steps < budget
    /\ confirmDialog[list].isOpen
    /\ ~confirmDisabled(confirmDialog[list], selectedPaymentMethod[list])
    /\ LET call == confirmCall(confirmDialog[list], selectedPaymentMethod[list])
       IN  /\ bills' = calledBack(bills, call, now)
           /\ last' = Event("handleConfirmAction", call.billId,
                            confirmDialog[list].action, call.paymentMethod)
    /\ confirmDialog' = [confirmDialog EXCEPT ![list] = closedDialog]
    /\ selectedPaymentMethod' = [selectedPaymentMethod EXCEPT ![list] = ""]
    /\ steps' = steps + 1
    /\ UNCHANGED <<budget, filterVars, restVars>>
    /\ UNCHANGED <<picked, now, apiKey, modalVars>>

----------------------------------------------------------------------------
(* Text of the amount and barcode inputs (AddBillModal, main.tsx) *)

DigitChars == {"0", "1", "2", "3", "4", "5", "6", "7", "8", "9"}

digitValue(c) ==
    CASE c = "0" -> 0 [] c = "1" -> 1 [] c = "2" -> 2 [] c = "3" -> 3
      [] c = "4" -> 4 [] c = "5" -> 5 [] c = "6" -> 6 [] c = "7" -> 7
      [] c = "8" -> 8 [] c = "9" -> 9

digitChar(n) ==
    CASE n = 0 -> "0" [] n = 1 -> "1" [] n = 2 -> "2" [] n = 3 -> "3"
      [] n = 4 -> "4" [] n = 5 -> "5" [] n = 6 -> "6" [] n = 7 -> "7"
      [] n = 8 -> "8" [] n = 9 -> "9"

\* value.replace(/\D/g, '')
digitsOf(value) == SelectSeq(value, LAMBDA c : c \in DigitChars)

RECURSIVE toNumber(_)
\* Number(digits); Number("") is 0
toNumber(digits) ==
    IF digits = <<>> THEN 0
    ELSE 10 * toNumber(SubSeq(digits, 1, Len(digits) - 1))
         + digitValue(digits[Len(digits)])

RECURSIVE toDecimal(_)
\* the decimal digits of a natural number
toDecimal(n) ==
    IF n < 10 THEN <<digitChar(n)>>
    ELSE Append(toDecimal(n \div 10), digitChar(n % 10))

\* (n).toString() of an integer
integerToString(n) == IF n < 0 THEN <<"-">> \o toDecimal(0 - n) ELSE toDecimal(n)

RECURSIVE groupThousands(_)
\* pt-BR grouping of the integer part: a "." before every three digits
groupThousands(digits) ==
    IF Len(digits) <= 3 THEN digits
    ELSE groupThousands(SubSeq(digits, 1, Len(digits) - 3))
         \o <<".">> \o SubSeq(digits, Len(digits) - 2, Len(digits))

\* Intl.NumberFormat('pt-BR', {style: 'currency', currency: 'BRL'}) of
\* Number(digits) / 100; the blank after R$ is a no-break space
formatCurrency(value) ==
    LET n == toNumber(digitsOf(value))
    IN  <<"R", "$", " ">> \o groupThousands(toDecimal(n \div 100))
        \o <<",", digitChar((n % 100) \div 10), digitChar(n % 10)>>

\* index of the first "," of a text, 0 when there is none
firstComma(text) ==
    IF \E i \in 1..Len(text) : text[i] = ","
    THEN CHOOSE i \in 1..Len(text) :
            text[i] = "," /\ \A j \in 1..(i - 1) : text[j] # ","
    ELSE 0

\* parseFloat(amount.replace(/[^\d,]/g, '').replace(',', '.')), in centavos.
\* Only the first "," becomes the decimal point; parseFloat stops at a
\* second one.  Fraction digits after the second are below one centavo.
\* (The amount state is always an output of formatCurrency, so the text
\* kept has at least one digit before the "," .)
parseAmount(text) ==
    LET kept == SelectSeq(text, LAMBDA c : c \in DigitChars \cup {","})
        k == firstComma(kept)
        whole == IF k = 0 THEN kept ELSE SubSeq(kept, 1, k - 1)
        rest == IF k = 0 THEN <<>> ELSE SubSeq(kept, k + 1, Len(kept))
        m == firstComma(rest)
        frac == IF m = 0 THEN rest ELSE SubSeq(rest, 1, m - 1)
        padded == SubSeq(frac \o <<"0", "0">>, 1, 2)
    IN  100 * toNumber(whole) + toNumber(padded)

RECURSIVE groupFours(_)
\* replace(/(.{4})/g, '$1 '): a blank after every complete group of four
groupFours(digits) ==
    IF Len(digits) < 4 THEN digits
    ELSE SubSeq(digits, 1, 4) \o <<" ">>
         \o groupFours(SubSeq(digits, 5, Len(digits)))

\* trim() of a text whose only blank can be the last character
trimEnd(text) ==
    IF text # <<>> /\ text[Len(text)] = " "
    THEN SubSeq(text, 1, Len(text) - 1) ELSE text

\* value.replace(/\D/g, '').replace(/(.{4})/g, '$1 ').trim()
formatBarcode(value) == trimEnd(groupFours(digitsOf(value)))

----------------------------------------------------------------------------
(* AddBillModal (main.tsx) *)

\* useDropzone: maxSize, and the MIME types of accept
maxSize == 10485760
AcceptedTypes == {"application/pdf", "image/jpeg", "image/png"}

\* a file passes the uploader whatever its size
acceptedWhateverSize(file) == file.type \in AcceptedTypes

\* useDropzone hands a dropped file to onDrop among acceptedFiles
accepted(file) == file.type \in AcceptedTypes /\ file.size <= maxSize

\* the files the user selects: name (split at the dots), MIME type and size
\* in bytes; the extension of a name agrees with the type
Files ==
    { [name |-> <<"conta", "pdf">>, type |-> "application/pdf", size |-> 204800],
      [name |-> <<"foto", "png">>, type |-> "image/png", size |-> 10485760] }

\* every file the user can drop
DroppedFiles ==
    Files \cup
    { [name |-> <<"foto", "png">>, type |-> "image/png", size |-> 10485761],
      [name |-> <<"animacao", "gif">>, type |-> "image/gif", size |-> 204800] }

ImageTypes == {"image/jpeg", "image/png"}

\* the values the user can type into the form
TypedBeneficiaries == {"", "Acme"}
TypedCategories == {"", "Lazer"}
TypedAmounts == { <<>>, <<"1", "5", "0">>,
                  <<"R", "$", " ", "1", ",", "5", "0", "7">> }
TypedBarcodes == { <<>>, <<"2", "3", "7", "9", ".", "1", "-", "a">> }
PickedDays == {500}

\* the results analyzeBillWithAI can resolve with
AnalysisResults ==
    { [beneficiary |-> "Enel", amount |-> 12550, dueDate |-> 501,
       category |-> "Energia", confidence |-> 90,
       summary |-> "Conta de energia", barcode |-> <<"8", "3", "6", "4", "0">>],
      [beneficiary |-> "Copasa", amount |-> -990, dueDate |-> 499,
       category |-> "Outros", confidence |-> 80,
       summary |-> "Conta de agua"] }

\* the form as handleSubmit reads it
currentForm ==
    [beneficiary |-> beneficiary, amount |-> amount, dueDate |-> dueDate,
     category |-> category, barcode |-> barcode,
     selectedFile |-> selectedFile, uploadMode |-> uploadMode]

missingRequired(form) ==
    form.beneficiary = "" \/ form.amount = <<>> \/ form.dueDate = NULL

\* handleSubmit without the early return of the manual mode
submitRejectedWithoutFileOnly(form) ==
    form.selectedFile = NULL /\ missingRequired(form)

\* the two early returns of handleSubmit
submitRejected(form) ==
    \/ form.uploadMode = "manual" /\ missingRequired(form)
    \/ form.selectedFile = NULL /\ missingRequired(form)

\* selectedFile?.name?.split('.')[0] || 'Importado'
fileStem(file) ==
    IF file # NULL /\ file[1].name[1] # "" THEN file[1].name[1] ELSE "Importado"

\* submittedBill with barcode: barcode, the text of the input as it is
submittedBillRawBarcode(form, t) ==
    LET bill ==
          [beneficiary |-> IF form.beneficiary # "" THEN form.beneficiary
                           ELSE "Boleto " \o fileStem(form.selectedFile),
           amount |-> IF form.amount # <<>> THEN parseAmount(form.amount) ELSE 0,
           dueDate |-> IF form.dueDate # NULL THEN toISODate(form.dueDate[1])
                       ELSE toISODate(t),
           category |-> IF form.category # "" THEN form.category
                        ELSE "Importado"]
    IN  IF form.barcode # <<>>
        THEN ("barcode" :> form.barcode) @@ bill
        ELSE bill

\* the bill handleSubmit passes to onAddBill
submittedBill(form, t) ==
    LET barcodeDigits == digitsOf(form.barcode)
        bill ==
          [beneficiary |-> IF form.beneficiary # "" THEN form.beneficiary
                           ELSE "Boleto " \o fileStem(form.selectedFile),
           amount |-> IF form.amount # <<>> THEN parseAmount(form.amount) ELSE 0,
           dueDate |-> IF form.dueDate # NULL THEN toISODate(form.dueDate[1])
                       ELSE toISODate(t),
           category |-> IF form.category # "" THEN form.category
                        ELSE "Importado"]
    IN  IF barcodeDigits # <<>>
        THEN ("barcode" :> barcodeDigits) @@ bill
        ELSE bill

\* the form fields handleApplyAnalysis writes
appliedAnalysis(result) ==
    [beneficiary |-> result.beneficiary,
     amount |-> formatCurrency(integerToString(result.amount)),
     dueDate |-> Some(localMidnight(result.dueDate)),
     category |-> result.category,
     barcode |-> IF Has(result, "barcode") /\ result.barcode # <<>>
                 THEN formatBarcode(result.barcode) ELSE barcode]

OpenModal ==
    /\ steps < budget
    /\ noDialogOpen
    /\ isOpen' = TRUE
    /\ last' = Event("setIsOpen", NoBillId, "open", "")
    /\ steps' = steps + 1
    /\ UNCHANGED <<budget, filterVars, restVars>>
    /\ UNCHANGED <<bills, listVars, picked, now, apiKey, formVars, fileVars,
                   uploadMode, inFlight>>

CloseModal ==
    /\ steps < budget
    /\ isOpen
    /\ isOpen' = FALSE
    /\ last' = Event("setIsOpen", NoBillId, "close", "")
    /\ steps' = steps + 1
    /\ UNCHANGED <<budget, filterVars, restVars>>
    /\ UNCHANGED <<bills, listVars, picked, now, apiKey, formVars, fileVars,
                   uploadMode, inFlight>>

SetUploadMode(mode) ==
    /\ steps < budget
    /\ isOpen
    /\ uploadMode' = mode
    /\ last' = Event("setUploadMode", NoBillId, mode, "")
    /\ steps' = steps + 1
    /\ UNCHANGED <<budget, filterVars, restVars>>
    /\ UNCHANGED <<bills, listVars, picked, now, apiKey, isOpen, formVars,
                   fileVars, inFlight>>

SetBeneficiary(value) ==
    /\ steps < budget
    /\ isOpen
    /\ beneficiary' = value
    /\ last' = Event("setBeneficiary", NoBillId, "", "")
    /\ steps' = steps + 1
    /\ UNCHANGED <<budget, filterVars, restVars>>
    /\ UNCHANGED <<bills, listVars, picked, now, apiKey, isOpen, amount,
                   dueDate, category, barcode, fileVars, uploadMode, inFlight>>

HandleAmountChange(value) ==
    /\ steps < budget
    /\ isOpen
    /\ amount' = formatCurrency(value)
    /\ last' = Event("handleAmountChange", NoBillId, "", "")
    /\ steps' = steps + 1
    /\ UNCHANGED <<budget, filterVars, restVars>>
    /\ UNCHANGED <<bills, listVars, picked, now, apiKey, isOpen, beneficiary,
                   dueDate, category, barcode, fileVars, uploadMode, inFlight>>

\* the calendar: picking a day, or clicking the picked day again
SetDueDate(date) ==
    /\ steps < budget
    /\ isOpen
    /\ dueDate' = date
    /\ last' = Event("setDueDate", NoBillId, "", "")
    /\ steps' = steps + 1
    /\ UNCHANGED <<budget, filterVars, restVars>>
    /\ UNCHANGED <<bills, listVars, picked, now, apiKey, isOpen, beneficiary,
                   amount, category, barcode, fileVars, uploadMode, inFlight>>

SetCategory(value) ==
    /\ steps < budget
    /\ isOpen
    /\ category' = value
    /\ last' = Event("setCategory", NoBillId, "", "")
    /\ steps' = steps + 1
    /\ UNCHANGED <<budget, filterVars, restVars>>
    /\ UNCHANGED <<bills, listVars, picked, now, apiKey, isOpen, beneficiary,
                   amount, dueDate, barcode, fileVars, uploadMode, inFlight>>

SetBarcode(value) ==
    /\ steps < budget
    /\ isOpen
    /\ barcode' = formatBarcode(value)
    /\ last' = Event("setBarcode", NoBillId, "", "")
    /\ steps' = steps + 1
    /\ UNCHANGED <<budget, filterVars, restVars>>
    /\ UNCHANGED <<bills, listVars, picked, now, apiKey, isOpen, beneficiary,
                   amount, dueDate, category, fileVars, uploadMode, inFlight>>

\* onDropRejected: useDropzone keeps a file of another type or above
\* maxSize out of acceptedFiles, so that onDrop finds no file to pass on
DropRejected(file) ==
    /\ steps < budget
    /\ isOpen
    /\ uploadMode = "upload"
    /\ selectedFile = NULL
    /\ ~accepted(file)
    /\ last' = Event("onDropRejected", NoBillId,
                     IF file.type \notin AcceptedTypes
                     THEN "file-invalid-type" ELSE "file-too-large", "")
    /\ steps' = steps + 1
    /\ UNCHANGED <<bills, filterVars, listVars, picked, now, apiKey, modalVars,
                   restVars, budget>>

\* onDrop with an accepted file: handleFileSelect up to its await.  The
\* uploader shows the drop zone only in upload mode and only while no file
\* is selected.
FileSelect(file) ==
    /\ steps < budget
    /\ isOpen
    /\ uploadMode = "upload"
    /\ selectedFile = NULL
    /\ accepted(file)
    /\ selectedFile' = Some(file)
    /\ analysisComplete' = FALSE
    /\ IF apiKey = NULL
       THEN /\ beneficiary' = IF beneficiary = ""
                              THEN "Boleto " \o file.name[1] ELSE beneficiary
            /\ UNCHANGED <<isAnalyzing, inFlight>>
       ELSE IF file.type # "application/pdf" /\ file.type \notin ImageTypes
       THEN UNCHANGED <<beneficiary, isAnalyzing, inFlight>>
       ELSE /\ isAnalyzing' = TRUE
            /\ inFlight' = Append(inFlight,
                   [file |-> file, beneficiary |-> beneficiary])
            /\ UNCHANGED beneficiary
    /\ last' = Event("handleFileSelect", NoBillId, "", "")
    /\ steps' = steps + 1
    /\ UNCHANGED <<budget, filterVars, restVars>>
    /\ UNCHANGED <<bills, listVars, picked, now, apiKey, isOpen, amount,
                   dueDate, category, barcode, aiSummary, analysisResult,
                   uploadMode>>

FileRemove ==
    /\ steps < budget
    /\ isOpen
    /\ uploadMode = "upload"
    /\ selectedFile # NULL
    /\ selectedFile' = NULL
    /\ analysisComplete' = FALSE
    /\ isAnalyzing' = FALSE
    /\ aiSummary' = NULL
    /\ analysisResult' = NULL
    /\ last' = Event("handleFileRemove", NoBillId, "", "")
    /\ steps' = steps + 1
    /\ UNCHANGED <<budget, filterVars, restVars>>
    /\ UNCHANGED <<bills, listVars, picked, now, apiKey, isOpen, formVars,
                   uploadMode, inFlight>>

removeAt(s, k) == SubSeq(s, 1, k - 1) \o SubSeq(s, k + 1, Len(s))

\* a success branch that fills the form in with the result it stores
AnalysisResolvedApplying(k, result) ==
    /\ steps < budget
    /\ k \in 1..Len(inFlight)
    /\ inFlight' = removeAt(inFlight, k)
    /\ analysisResult' = Some(result)
    /\ aiSummary' = Some(result.summary)
    /\ analysisComplete' = TRUE
    /\ isAnalyzing' = FALSE
    /\ beneficiary' = appliedAnalysis(result).beneficiary
    /\ amount' = appliedAnalysis(result).amount
    /\ dueDate' = appliedAnalysis(result).dueDate
    /\ category' = appliedAnalysis(result).category
    /\ barcode' = appliedAnalysis(result).barcode
    /\ last' = Event("analysisResolved", NoBillId, "", "")
    /\ steps' = steps + 1
    /\ UNCHANGED <<budget, filterVars, restVars>>
    /\ UNCHANGED <<bills, listVars, picked, now, apiKey, isOpen,
                   selectedFile, uploadMode>>

\* handleFileSelect after its await, analyzeBillWithAI having resolved
AnalysisResolved(k, result) ==
    /\ steps < budget
    /\ k \in 1..Len(inFlight)
    /\ inFlight' = removeAt(inFlight, k)
    /\ analysisResult' = Some(result)
    /\ aiSummary' = Some(result.summary)
    /\ analysisComplete' = TRUE
    /\ isAnalyzing' = FALSE
    /\ last' = Event("analysisResolved", NoBillId, "", "")
    /\ steps' = steps + 1
    /\ UNCHANGED <<budget, filterVars, restVars>>
    /\ UNCHANGED <<bills, listVars, picked, now, apiKey, isOpen, formVars,
                   selectedFile, uploadMode>>

\* handleFileSelect after its await, analyzeBillWithAI having thrown; the
\* beneficiary tested is the one of the render that started the analysis
AnalysisRejected(k) ==
    /\ steps < budget
    /\ k \in 1..Len(inFlight)
    /\ inFlight' = removeAt(inFlight, k)
    /\ beneficiary' = IF inFlight[k].beneficiary = ""
                      THEN "Boleto " \o inFlight[k].file.name[1]
                      ELSE beneficiary
    /\ isAnalyzing' = FALSE
    /\ last' = Event("analysisRejected", NoBillId, "", "")
    /\ steps' = steps + 1
    /\ UNCHANGED <<budget, filterVars, restVars>>
    /\ UNCHANGED <<bills, listVars, picked, now, apiKey, isOpen, amount,
                   dueDate, category, barcode, selectedFile, analysisComplete,
                   aiSummary, analysisResult, uploadMode>>

\* the button is rendered in upload mode, with a file selected, once the
\* analysis is complete and a summary is present
ApplyAnalysis ==
    /\ steps < budget
    /\ isOpen
    /\ uploadMode = "upload"
    /\ selectedFile # NULL
    /\ analysisComplete /\ ~isAnalyzing
    /\ aiSummary # NULL
    /\ IF analysisResult # NULL
       THEN LET applied == appliedAnalysis(analysisResult[1])
            IN  /\ beneficiary' = applied.beneficiary
                /\ amount' = applied.amount
                /\ dueDate' = applied.dueDate
                /\ category' = applied.category
                /\ barcode' = applied.barcode
       ELSE UNCHANGED formVars
    /\ last' = Event("handleApplyAnalysis", NoBillId, "", "")
    /\ steps' = steps + 1
    /\ UNCHANGED <<budget, filterVars, restVars>>
    /\ UNCHANGED <<bills, listVars, picked, now, apiKey, isOpen, fileVars,
                   uploadMode, inFlight>>

Submit ==
    /\ steps < budget
    /\ isOpen
    /\ IF submitRejected(currentForm)
       THEN /\ last' = Event("handleSubmit", NoBillId, "rejected", "")
            /\ UNCHANGED <<bills, isOpen, formVars, fileVars, uploadMode>>
       ELSE /\ bills' = handleAddBill(bills, submittedBill(currentForm, now), now)
            /\ beneficiary' = ""
            /\ amount' = <<>>
            /\ dueDate' = NULL
            /\ category' = ""
            /\ barcode' = <<>>
            /\ selectedFile' = NULL
            /\ analysisComplete' = FALSE
            /\ isAnalyzing' = FALSE
            /\ uploadMode' = "upload"
            /\ aiSummary' = NULL
            /\ analysisResult' = NULL
            /\ isOpen' = FALSE
            /\ last' = Event("handleSubmit", now, "accepted", "")
    /\ steps' = steps + 1
    /\ UNCHANGED <<budget, filterVars, restVars>>
    /\ UNCHANGED <<listVars, picked, now, apiKey, inFlight>>

----------------------------------------------------------------------------
(* The page *)

\* the page as constructed, b events to explore
InitPageAt(b, clock) ==
    /\ budget = b
    /\ bills = mockBills
    /\ selectedCategory = NULL
    /\ selectedMonth = NULL
    /\ confirmDialog = [l \in Lists |-> closedDialog]
    /\ selectedPaymentMethod = [l \in Lists |-> ""]
    /\ picked = [l \in Lists |-> ""]
    /\ now \in clock
    /\ apiKey \in {NULL, Some("sk-key")}
    /\ isOpen = FALSE
    /\ beneficiary = ""
    /\ amount = <<>>
    /\ dueDate = NULL
    /\ category = ""
    /\ barcode = <<>>
    /\ selectedFile = NULL
    /\ uploadMode = "upload"
    /\ isAnalyzing = FALSE
    /\ analysisComplete = FALSE
    /\ aiSummary = NULL
    /\ analysisResult = NULL
    /\ inFlight = <<>>
    /\ last = Event("init", NoBillId, "", "")
    /\ steps = 0

InitPage(b) == InitPageAt(b, {StartNow})

\* ReportModal as constructed
InitReportModal ==
    /\ reportIsOpen = FALSE
    /\ startDate = NULL
    /\ endDate = NULL
    /\ isGenerating = FALSE
    /\ savedReport = NULL
    /\ reportEffects = <<>>

\* public.bills as created
InitStore ==
    /\ billsTable = {}
    /\ statement = [op |-> "create table", uid |-> NULL, rows |-> {},
                    error |-> FALSE]

\* no analysis called: nothing stored, nothing requested
InitProvider ==
    /\ settings = NULL
    /\ analysisCall = NULL
    /\ requests = <<>>
    /\ settled = NULL

\* no conversion called
InitPdf ==
    /\ pdfCall = NULL
    /\ conversion = NULL

\* the dashboard is on screen: a user is signed in, the session lookup is
\* over and the effects of the page have run
InitSignedIn ==
    /\ session = Some([user |-> "ana"])
    /\ user = Some("ana")
    /\ loading = FALSE
    /\ isPasswordRecovery = FALSE
    /\ sessionLookup = "resolved"
    /\ route = "/"
    /\ effectsPending = FALSE
    /\ authPage = 0
    /\ isLoading = FALSE
    /\ authCalls = <<>>

InitLib == InitProvider /\ InitPdf /\ InitSignedIn

InitPageSide == InitReportModal /\ InitStore /\ badges = <<>>

InitSide == InitPageSide /\ InitLib

InitWith(b) ==
    /\ InitPage(b)
    /\ content = <<>>
    /\ parsed = NULL
    /\ InitSide

Init == InitWith(MaxSteps)

NextLists ==
    \/ \E l \in Lists, i \in 1..Len(bills), a \in {"pay", "unpay", "delete"} :
          OpenConfirmDialog(l, i, a)
    \/ \E l \in Lists, m \in PaymentMethods : SelectPaymentMethod(l, m)
    \/ \E l \in Lists : CloseDialog(l)
    \/ \E l \in Lists : ConfirmAction(l)

NextModal ==
    \/ OpenModal
    \/ CloseModal
    \/ \E m \in {"upload", "manual"} : SetUploadMode(m)
    \/ \E v \in TypedBeneficiaries : SetBeneficiary(v)
    \/ \E v \in TypedAmounts : HandleAmountChange(v)
    \/ \E d \in PickedDays : SetDueDate(Some(localMidnight(d)))
    \/ SetDueDate(NULL)
    \/ \E v \in TypedCategories : SetCategory(v)
    \/ \E v \in TypedBarcodes : SetBarcode(v)
    \/ \E file \in DroppedFiles : FileSelect(file)
    \/ \E file \in DroppedFiles : DropRejected(file)
    \/ FileRemove
    \/ \E k \in 1..Len(inFlight), r \in AnalysisResults : AnalysisResolved(k, r)
    \/ \E k \in 1..Len(inFlight) : AnalysisRejected(k)
    \/ ApplyAnalysis
    \/ Submit

Next == NextLists \/ NextModal \/ Tick

Spec == Init /\ [][Next]_vars

----------------------------------------------------------------------------
(* The handlers of Index called directly, as a component test calls them *)

\* the bills a caller of onAddBill can pass
NewBills ==
    { [beneficiary |-> "Acme", amount |-> 150, dueDate |-> 500,
       category |-> "Lazer"],
      [beneficiary |-> "Boleto conta", amount |-> 0, dueDate |-> 899,
       category |-> "Importado", barcode |-> <<"2", "3", "7", "9", "1">>] }

billIds(bs) == {bs[i].id : i \in 1..Len(bs)}

CallStatusChange(billId, newStatus, paymentMethod) ==
    /\ steps < budget
    /\ bills' = handleBillStatusChange(bills, billId, newStatus,
                                       paymentMethod, now)
    /\ last' = Event("handleBillStatusChange", billId, newStatus, paymentMethod)
    /\ steps' = steps + 1
    /\ UNCHANGED <<budget, filterVars, restVars>>
    /\ UNCHANGED <<listVars, picked, now, apiKey, modalVars>>

CallDeleteBill(billId) ==
    /\ steps < budget
    /\ bills' = handleDeleteBill(bills, billId)
    /\ last' = Event("handleDeleteBill", billId, "", "")
    /\ steps' = steps + 1
    /\ UNCHANGED <<budget, filterVars, restVars>>
    /\ UNCHANGED <<listVars, picked, now, apiKey, modalVars>>

CallAddBill(newBill) ==
    /\ steps < budget
    /\ bills' = handleAddBill(bills, newBill, now)
    /\ last' = Event("handleAddBill", now, "", "")
    /\ steps' = steps + 1
    /\ UNCHANGED <<budget, filterVars, restVars>>
    /\ UNCHANGED <<listVars, picked, now, apiKey, modalVars>>

NextHandlers ==
    \/ \E id \in billIds(bills) \cup {NoBillId},
          m \in PaymentMethods \cup {"", UNDEFINED} :
          CallStatusChange(id, "paid", m)
    \/ \E id \in billIds(bills) \cup {NoBillId} :
          CallStatusChange(id, "pending", UNDEFINED)
    \/ \E id \in billIds(bills) \cup {NoBillId} : CallDeleteBill(id)
    \/ \E b \in NewBills : CallAddBill(b)
    \/ Tick

SpecHandlers == InitWith(MaxCalls) /\ [][NextHandlers]_vars

----------------------------------------------------------------------------
(* The two lists of the page with their dialogs; the add-bill dialog is     *)
(* seen only through the onAddBill calls it makes                           *)

OnAddBill(newBill) ==
    /\ steps < budget
    /\ noDialogOpen
    /\ bills' = handleAddBill(bills, newBill, now)
    /\ last' = Event("onAddBill", now, "", "")
    /\ steps' = steps + 1
    /\ UNCHANGED <<budget, filterVars, restVars>>
    /\ UNCHANGED <<listVars, picked, now, apiKey, modalVars>>

NextDashboard ==
    \/ NextLists
    \/ \E b \in NewBills : OnAddBill(b)
    \/ Tick

SpecDashboard == InitWith(MaxDashboardSteps) /\ [][NextDashboard]_vars

----------------------------------------------------------------------------
(* lib/ai-providers.ts: parseAIResponse *)

\* The reply of a provider is a sequence of lexical tokens: the punctuation
\* of JSON ("{", "}", ":", ","), a markdown fence, the literal null, a piece
\* of prose, a JSON string (text: its pieces; single characters where the
\* code looks at characters) and a JSON number (value: in hundredths).
Token(kind, text, value) == [kind |-> kind, text |-> text, value |-> value]
Punct(kind) == Token(kind, <<>>, 0)
Prose == Token("prose", <<"Here is the result:">>, 0)
Str(text) == Token("str", text, 0)
Num(hundredths) == Token("num", <<>>, hundredths)

\* content.match(/\{[\s\S]*\}/): from the first "{" that has a "}" behind
\* it to the last "}"
jsonMatch(tokens) ==
    LET opens == {i \in 1..Len(tokens) : tokens[i].kind = "{"}
        closes == {j \in 1..Len(tokens) : tokens[j].kind = "}"}
    IN  IF \E i \in opens, j \in closes : i < j
        THEN LET first == CHOOSE i \in opens : \A k \in opens : i <= k
                 final == CHOOSE j \in closes : \A k \in closes : k <= j
             IN  Some(SubSeq(tokens, first, final))
        ELSE NULL

\* content.replace(/```json|```/g, '').trim()
cleanContent(tokens) == SelectSeq(tokens, LAMBDA tok : tok.kind # "fence")

isScalar(tok) == tok.kind \in {"str", "num", "null"}

\* the members of a JSON object: key : value, separated by ","
validMembers(inside) ==
    \/ inside = <<>>
    \/ /\ Len(inside) % 4 = 3
       /\ \A j \in 0..(Len(inside) \div 4) :
             /\ inside[4 * j + 1].kind = "str"
             /\ inside[4 * j + 2].kind = ":"
             /\ isScalar(inside[4 * j + 3])
             /\ 4 * j + 4 <= Len(inside) => inside[4 * j + 4].kind = ","

\* JSON.parse accepts the tokens: an object of scalar members
validJSON(tokens) ==
    /\ Len(tokens) >= 2
    /\ tokens[1].kind = "{"
    /\ tokens[Len(tokens)].kind = "}"
    /\ validMembers(SubSeq(tokens, 2, Len(tokens) - 1))

keyName(tok) == IF Len(tok.text) = 1 THEN tok.text[1] ELSE ""

\* JSON.parse of an accepted text: the object, a repeated key taking its
\* last value
JSONparse(tokens) ==
    LET inside == SubSeq(tokens, 2, Len(tokens) - 1)
        members == 1..((Len(inside) + 1) \div 4)
        keyOf(j) == keyName(inside[4 * j - 3])
        lastOf(name) == CHOOSE j \in members :
                            /\ keyOf(j) = name
                            /\ \A k \in members : keyOf(k) = name => k <= j
    IN  [name \in {keyOf(j) : j \in members} |-> inside[4 * lastOf(name) - 1]]

\* the value of a field is truthy: a non-empty string or a number not 0
truthy(obj, name) ==
    /\ Has(obj, name)
    /\ \/ obj[name].kind = "str" /\ obj[name].text # <<>>
       \/ obj[name].kind = "num" /\ obj[name].value # 0

NaN == [isNaN |-> TRUE, hundredths |-> 0]
Number(hundredths) == [isNaN |-> FALSE, hundredths |-> hundredths]

\* the longest prefix of a text made of digits
digitPrefix(text) ==
    LET k == CHOOSE k \in 0..Len(text) :
                /\ \A i \in 1..k : text[i] \in DigitChars
                /\ k < Len(text) => text[k + 1] \notin DigitChars
    IN  SubSeq(text, 1, k)

RECURSIVE trimStart(_)
trimStart(text) ==
    IF text # <<>> /\ text[1] = " " THEN trimStart(Tail(text)) ELSE text

\* parseFloat of a text of single characters: blanks, a sign, digits, a "."
\* and digits; NaN without a digit.  (Texts with more than two fraction
\* digits or an exponent are not among the replies.)
parseFloatText(text) ==
    LET trimmed == trimStart(text)
        signed == trimmed # <<>> /\ trimmed[1] \in {"-", "+"}
        unsigned == IF signed THEN Tail(trimmed) ELSE trimmed
        whole == digitPrefix(unsigned)
        rest == SubSeq(unsigned, Len(whole) + 1, Len(unsigned))
        frac == IF rest # <<>> /\ rest[1] = "."
                THEN digitPrefix(Tail(rest)) ELSE <<>>
        magnitude == 100 * toNumber(whole)
                     + toNumber(SubSeq(frac \o <<"0", "0">>, 1, 2))
    IN  IF whole = <<>> /\ frac = <<>> THEN NaN
        ELSE Number(IF signed /\ trimmed[1] = "-"
                    THEN 0 - magnitude ELSE magnitude)

\* String(x) of a number
numberToString(hundredths) ==
    LET magnitude == IF hundredths < 0 THEN 0 - hundredths ELSE hundredths
        frac == magnitude % 100
    IN  (IF hundredths < 0 THEN <<"-">> ELSE <<>>)
        \o toDecimal(magnitude \div 100)
        \o (IF frac = 0 THEN <<>>
            ELSE IF frac % 10 = 0 THEN <<".", digitChar(frac \div 10)>>
            ELSE <<".", digitChar(frac \div 10), digitChar(frac % 10)>>)

\* String(x) of a truthy value
toText(tok) ==
    IF tok.kind = "num" THEN numberToString(tok.value) ELSE tok.text

\* parseFloat(x) of a truthy value
parseFloat(tok) ==
    IF tok.kind = "num" THEN Number(tok.value) ELSE parseFloatText(tok.text)

\* the three messages parseAIResponse throws
NoJsonMessage == "A IA nao conseguiu analisar o boleto. Resposta: ..."
ParseErrorMessage == "Erro ao interpretar resposta da IA: ..."
IncompleteMessage ==
    "Dados incompletos extraidos do boleto. Verifique se a imagem esta legivel."

Threw(message) == [threw |-> TRUE, message |-> message]
Returned(value) == [threw |-> FALSE, value |-> value]

\* category: 'Outros' whatever the reply says
categoryAlwaysDefault(result) == Str(<<"Outros">>)

\* result.category || 'Outros'
categoryOrDefault(result) ==
    IF truthy(result, "category") THEN result.category ELSE Str(<<"Outros">>)

\* the object parseAIResponse returns for a parsed reply with the three
\* required fields
analysisOf(result) ==
    LET categoryValue == categoryOrDefault(result)
        fields ==
          [beneficiary |-> result.beneficiary,
           amount |-> parseFloat(result.amount),
           dueDate |-> result.dueDate,
           category |-> categoryValue,
           confidence |-> IF truthy(result, "confidence")
                          THEN result.confidence ELSE Num(80),
           summary |-> IF truthy(result, "summary") THEN result.summary
                       ELSE Str(<<"Beneficiario: ">> \o toText(result.beneficiary)
                                \o <<", Valor: R$ ">> \o toText(result.amount)
                                \o <<", Vencimento: ">> \o toText(result.dueDate)
                                \o <<", Categoria: ">> \o toText(categoryValue))]
    IN  IF truthy(result, "barcode")
        THEN ("barcode" :> digitsOf(toText(result.barcode))) @@ fields
        ELSE fields

parseAIResponse(reply) ==
    LET first == jsonMatch(reply)
        located == IF first # NULL THEN first
                   ELSE jsonMatch(cleanContent(reply))
    IN  IF located = NULL THEN Threw(NoJsonMessage)
        ELSE IF ~validJSON(located[1]) THEN Threw(ParseErrorMessage)
        ELSE LET result == JSONparse(located[1])
             IN  IF \/ ~truthy(result, "beneficiary")
                    \/ ~truthy(result, "amount")
                    \/ ~truthy(result, "dueDate")
                 THEN Threw(IncompleteMessage)
                 ELSE Returned(analysisOf(result))

\* the replies explored: an object of up to six members, bare, behind a
\* sentence or inside a fence, and replies that hold no JSON object
Pair(name, tok) == <<Str(<<name>>), Punct(":"), tok>>

RECURSIVE joinMembers(_)
joinMembers(pairs) ==
    IF pairs = <<>> THEN <<>>
    ELSE IF Len(pairs) = 1 THEN pairs[1]
    ELSE pairs[1] \o <<Punct(",")>> \o joinMembers(Tail(pairs))

Object(pairs) == <<Punct("{")>> \o joinMembers(pairs) \o <<Punct("}")>>

BeneficiaryMembers ==
    { <<>>, <<Pair("beneficiary", Str(<<"Acme">>))>>,
      <<Pair("beneficiary", Str(<<>>))>> }
AmountMembers ==
    { <<>>, <<Pair("amount", Num(12550))>>, <<Pair("amount", Num(0))>>,
      <<Pair("amount", Str(<<"1", "2", "5", ",", "5", "0">>))>>,
      <<Pair("amount", Str(<<"R", "$", " ", "9", ".", "9">>))>>,
      <<Pair("amount", Str(<<" ", "-", "9", ".", "9">>))>> }
DueDateMembers ==
    { <<>>, <<Pair("dueDate", Str(<<"2024-09-01">>))>>,
      <<Pair("dueDate", Punct("null"))>> }
CategoryMembers ==
    { <<>>, <<Pair("category", Str(<<"Energia">>))>>,
      <<Pair("category", Str(<<>>))>> }
BarcodeMembers ==
    { <<>>, <<Pair("barcode", Str(<<"8", "3", "6", ".", "4", "-", "0", " ", "1">>))>>,
      <<Pair("barcode", Str(<<"s", "/", "n">>))>>,
      <<Pair("barcode", Num(83640100))>> }

Objects ==
    { Object(b \o a \o d \o c \o r) :
        b \in BeneficiaryMembers, a \in AmountMembers, d \in DueDateMembers,
        c \in CategoryMembers, r \in BarcodeMembers }

\* the reply of the spec's example
SampleReply ==
    <<Prose>> \o Object(<<Pair("beneficiary", Str(<<"Acme">>)),
                          Pair("amount", Num(12550)),
                          Pair("dueDate", Str(<<"2024-09-01">>)),
                          Pair("category", Str(<<"Energia">>)),
                          Pair("confidence", Num(90))>>)

NoObjectReplies ==
    { <<>>, <<Prose>>, <<Punct("fence"), Prose, Punct("fence")>>,
      <<Punct("{"), Prose>>, <<Prose, Punct("}")>>,
      <<Punct("}"), Prose, Punct("{")>>,
      <<Punct("{"), Prose, Punct("}")>>,
      <<Punct("{")>> \o Pair("amount", Num(12550)) \o <<Punct(","), Punct("}")>>,
      <<Punct("{"), Str(<<"amount">>), Num(12550), Punct("}")>>,
      <<Punct("{"), Prose, Punct("}")>> \o SampleReply,
      SampleReply \o <<Prose, Punct("}")>> }

Replies ==
    Objects
    \cup { <<Prose>> \o o : o \in Objects }
    \cup { <<Punct("fence")>> \o o \o <<Punct("fence")>> : o \in Objects }
    \cup { Object(<<Pair("beneficiary", Str(<<"Acme">>)),
                    Pair("amount", Num(0)),
                    Pair("dueDate", Str(<<"2024-09-01">>)),
                    Pair("amount", Num(990))>>),
           SampleReply }
    \cup NoObjectReplies

\* one call of parseAIResponse
ParseReply ==
    /\ parsed = NULL
    /\ parsed' = Some(parseAIResponse(content))
    /\ last' = Event("parseAIResponse", NoBillId, "", "")
    /\ UNCHANGED <<bills, filterVars, listVars, picked, now, apiKey, modalVars,
                   content, sideVars, steps, budget>>

InitParse ==
    /\ InitPage(0)
    /\ content \in Replies
    /\ parsed = NULL
    /\ InitSide

SpecParse == InitParse /\ [][ParseReply]_vars

----------------------------------------------------------------------------
(* The filters of Index with the two lists *)

\* the categories prop of CategoryFilter
categories(bs) == {categoryKey(bs[i]) : i \in 1..Len(bs)}

\* CategoryFilter: the select ("all" or a category) and the clear button
SetSelectedCategory(value) ==
    /\ steps < budget
    /\ noDialogOpen
    /\ value \in {"all"} \cup categories(bills)
    /\ selectedCategory' = IF value = "all" THEN NULL ELSE Some(value)
    /\ last' = Event("setSelectedCategory", NoBillId, value, "")
    /\ steps' = steps + 1
    /\ UNCHANGED <<bills, selectedMonth, listVars, picked, now, apiKey,
                   modalVars, restVars, budget>>

\* PaymentChart: a click on a month selects it, a click on the selected
\* month deselects it
MonthSelect(month) ==
    /\ steps < budget
    /\ noDialogOpen
    /\ selectedMonth' = IF selectedMonth = Some(month) THEN NULL
                        ELSE Some(month)
    /\ last' = Event("onMonthSelect", NoBillId, month, "")
    /\ steps' = steps + 1
    /\ UNCHANGED <<bills, selectedCategory, listVars, picked, now, apiKey,
                   modalVars, restVars, budget>>

\* the "Limpar filtro" button, rendered while a month is selected
ClearMonth ==
    /\ steps < budget
    /\ noDialogOpen
    /\ selectedMonth # NULL
    /\ selectedMonth' = NULL
    /\ last' = Event("setSelectedMonth", NoBillId, "", "")
    /\ steps' = steps + 1
    /\ UNCHANGED <<bills, selectedCategory, listVars, picked, now, apiKey,
                   modalVars, restVars, budget>>

NextFilters ==
    \/ \E value \in {"all"} \cup categories(bills) : SetSelectedCategory(value)
    \/ \E month \in Months : MonthSelect(month)
    \/ ClearMonth

NextView ==
    \/ NextFilters
    \/ NextLists
    \/ \E newBill \in NewBills : OnAddBill(newBill)
    \/ Tick

SpecView == InitWith(MaxViewSteps) /\ [][NextView]_vars

----------------------------------------------------------------------------
(* The add-bill dialog with its file uploader *)

\* the dialog alone: the lists and the clock stand still
SpecIntake == InitWith(MaxIntakeSteps) /\ [][NextModal]_vars

----------------------------------------------------------------------------
(* BillsList: the status badge of a row *)

\* Math.floor in the place of Math.ceil
getDaysUntilDueFloor(day, t) == (parseISODate(day) - t) \div TicksPerDay

\* Math.ceil((due.getTime() - today.getTime()) / (1000 * 60 * 60 * 24))
getDaysUntilDue(day, t) == -((t - parseISODate(day)) \div TicksPerDay)

\* the badge getStatusBadge renders: its text, and the days it shows
getStatusBadge(bill, t) ==
    IF bill.status = "paid" THEN [text |-> "Pago", days |-> NULL]
    ELSE LET daysUntilDue == getDaysUntilDue(bill.dueDate, t)
         IN  IF daysUntilDue < 0
             THEN [text |-> "Vencido", days |-> NULL]
             ELSE IF daysUntilDue <= 3
             THEN [text |-> "Vence em", days |-> Some(daysUntilDue)]
             ELSE [text |-> "Em", days |-> Some(daysUntilDue)]

\* the clock readings at which the page is opened: from the midnight of
\* 2024-08-10 to the end of 2024-08-20
BadgeClock ==
    parseISODate(Date20240810)..(parseISODate(Date20240820 + 1) - 1)

\* a render of the two lists: every row gets its badge
RenderBadges ==
    /\ steps < budget
    /\ badges' = [i \in 1..Len(bills) |-> getStatusBadge(bills[i], now)]
    /\ last' = Event("getStatusBadge", NoBillId, "", "")
    /\ steps' = steps + 1
    /\ UNCHANGED <<pageVars, parseVars, reportVars, storeVars, libVars,
                   budget>>

InitBadges ==
    /\ InitPageAt(MaxBadgeSteps, BadgeClock)
    /\ content = <<>>
    /\ parsed = NULL
    /\ InitSide

\* the two lists, read at some time of the days around the due dates
SpecBadges == InitBadges /\ [][NextLists \/ RenderBadges]_vars

----------------------------------------------------------------------------
(* ReportModal *)

\* the dates the user can put in the two date inputs
ReportDays == {Date20240730, Date20240815} \cup PickedDays

\* only the start date is required
missingStartOnly(start, end) == start = NULL

\* !startDate || !endDate
missingRange(start, end) == start = NULL \/ end = NULL

\* a filter that leaves the bills due on the end date out
dueBeforeEnd(bill, start, end) ==
    /\ parseISODate(bill.dueDate) >= parseISODate(start)
    /\ parseISODate(bill.dueDate) < parseISODate(end)

\* billDate >= start && billDate <= end, the three of them new Date(...)
\* of a "YYYY-MM-DD" text
dueInPeriod(bill, start, end) ==
    /\ parseISODate(bill.dueDate) >= parseISODate(start)
    /\ parseISODate(bill.dueDate) <= parseISODate(end)

\* what generateReport writes into the document: the bills of the period,
\* split by status, with their totals and counts
reportDocument(bs, start, end) ==
    LET filtered == SelectSeq(bs, LAMBDA bill : dueInPeriod(bill, start, end))
        paid == SelectSeq(filtered, LAMBDA bill : bill.status = "paid")
        pending == SelectSeq(filtered, LAMBDA bill : bill.status = "pending")
    IN  [start |-> start, end |-> end,
         count |-> Len(filtered),
         paid |-> paid, pending |-> pending,
         paidCount |-> Len(paid), pendingCount |-> Len(pending),
         totalPaid |-> SumAmounts(paid),
         totalPending |-> SumAmounts(pending)]

OpenReport ==
    /\ steps < budget
    /\ noDialogOpen
    /\ reportIsOpen' = TRUE
    /\ last' = Event("ReportModal.setIsOpen", NoBillId, "open", "")
    /\ steps' = steps + 1
    /\ UNCHANGED <<pageVars, parseVars, storeVars, badges, libVars,
                   startDate, endDate, isGenerating, savedReport,
                   reportEffects, budget>>

CloseReport ==
    /\ steps < budget
    /\ reportIsOpen
    /\ reportIsOpen' = FALSE
    /\ last' = Event("ReportModal.setIsOpen", NoBillId, "close", "")
    /\ steps' = steps + 1
    /\ UNCHANGED <<pageVars, parseVars, storeVars, badges, libVars,
                   startDate, endDate, isGenerating, savedReport,
                   reportEffects, budget>>

SetStartDate(value) ==
    /\ steps < budget
    /\ reportIsOpen
    /\ startDate' = value
    /\ last' = Event("setStartDate", NoBillId, "", "")
    /\ steps' = steps + 1
    /\ UNCHANGED <<pageVars, parseVars, storeVars, badges, libVars,
                   reportIsOpen, endDate, isGenerating, savedReport,
                   reportEffects, budget>>

SetEndDate(value) ==
    /\ steps < budget
    /\ reportIsOpen
    /\ endDate' = value
    /\ last' = Event("setEndDate", NoBillId, "", "")
    /\ steps' = steps + 1
    /\ UNCHANGED <<pageVars, parseVars, storeVars, badges, libVars,
                   reportIsOpen, startDate, isGenerating,
                   savedReport, reportEffects, budget>>

\* new Date(text) is a valid date; format() throws on an invalid one
isValidDate(date) == date # NULL

\* generateReport, from the click on "Gerar PDF" to its finally block; the
\* rendering of the document by jsPDF succeeds (rendered) or throws
GenerateReport(rendered) ==
    /\ steps < budget
    /\ reportIsOpen
    /\ ~isGenerating
    /\ IF missingRange(startDate, endDate)
       THEN /\ reportEffects' = <<"alert">>
            /\ last' = Event("generateReport", NoBillId, "missing", "")
            /\ UNCHANGED <<reportIsOpen, isGenerating, savedReport>>
       ELSE IF rendered /\ isValidDate(startDate) /\ isValidDate(endDate)
       THEN /\ savedReport' = Some(reportDocument(bills, startDate[1],
                                                  endDate[1]))
            /\ reportIsOpen' = FALSE
            /\ isGenerating' = FALSE
            /\ reportEffects' = <<"setIsGenerating(true)", "new jsPDF",
                                  "doc.save", "setIsOpen(false)",
                                  "setIsGenerating(false)">>
            /\ last' = Event("generateReport", NoBillId, "saved", "")
       ELSE /\ isGenerating' = FALSE
            /\ reportEffects' = <<"setIsGenerating(true)", "new jsPDF",
                                  "alert", "setIsGenerating(false)">>
            /\ last' = Event("generateReport", NoBillId, "failed", "")
            /\ UNCHANGED <<reportIsOpen, savedReport>>
    /\ steps' = steps + 1
    /\ UNCHANGED <<pageVars, parseVars, storeVars, badges, libVars,
                   startDate, endDate, budget>>

NextReport ==
    \/ OpenReport
    \/ CloseReport
    \/ \E value \in {NULL} \cup {Some(d) : d \in ReportDays} :
          SetStartDate(value)
    \/ \E value \in {NULL} \cup {Some(d) : d \in ReportDays} :
          SetEndDate(value)
    \/ \E rendered \in BOOLEAN : GenerateReport(rendered)

\* the report dialog over the bills of the page, to which bills are added
SpecReport ==
    InitWith(MaxReportSteps)
    /\ [][NextReport \/ (\E newBill \in NewBills : OnAddBill(newBill))]_vars

----------------------------------------------------------------------------
(* supabase/migrations: the bills table and its row-level security *)

\* auth.users, and what auth.uid() can return: a user's id or null
Users == {"ana", "bruno"}
Callers == {Some(u) : u \in Users} \cup {NULL}

\* auth.uid() = user_id; null = user_id is not true
ownsRow(uid, row) == uid # NULL /\ uid[1] = row.user_id

\* an update policy whose check admits every new row
anyRow(uid, row) == TRUE

\* "Users can view their own bills": for select using (...)
selectUsing(uid, row) == ownsRow(uid, row)

\* "Users can insert their own bills": for insert with check (...)
insertCheck(uid, row) == ownsRow(uid, row)

\* "Users can update their own bills": for update using (...)
updateUsing(uid, row) == ownsRow(uid, row)

\* the update policy states no with check: its using expression is
\* applied to the new row as well
updateCheck(uid, row) == updateUsing(uid, row)

\* "Users can delete their own bills": for delete using (...)
deleteUsing(uid, row) == ownsRow(uid, row)

\* the where clauses of the statements: none, or "id = ..."
Wheres == {NULL} \cup {Some(id) : id \in 1..MaxRows}

\* the rows a where clause names
matching(where) ==
    {row \in billsTable : where = NULL \/ row.id = where[1]}

Select(uid, where) ==
    /\ steps < budget
    /\ statement' = [op |-> "select", uid |-> uid, error |-> FALSE,
                     rows |-> {row \in matching(where) :
                                  selectUsing(uid, row)}]
    /\ steps' = steps + 1
    /\ last' = Event("select", NoBillId, "", "")
    /\ UNCHANGED <<pageVars, parseVars, reportVars, badges, libVars,
                   billsTable,
                   budget>>

\* insert of one row; id is a fresh uuid, status has its default
Insert(uid, user_id) ==
    /\ steps < budget
    /\ Cardinality(billsTable) < MaxRows
    /\ LET id == 1 + Cardinality(billsTable)
           row == [id |-> id, user_id |-> user_id, status |-> "pending"]
       IN  IF insertCheck(uid, row) /\ \A r \in billsTable : r.id # id
           THEN /\ billsTable' = billsTable \cup {row}
                /\ statement' = [op |-> "insert", uid |-> uid,
                                 error |-> FALSE, rows |-> {row}]
           ELSE /\ statement' = [op |-> "insert", uid |-> uid,
                                 error |-> TRUE, rows |-> {}]
                /\ UNCHANGED billsTable
    /\ steps' = steps + 1
    /\ last' = Event("insert", NoBillId, "", "")
    /\ UNCHANGED <<pageVars, parseVars, reportVars, badges, libVars,
                   budget>>

\* update ... set column = value where ...: the rows the using expression
\* hides are skipped, a new row failing the check aborts the statement
Update(uid, where, column, value) ==
    /\ steps < budget
    /\ LET old == {row \in matching(where) : updateUsing(uid, row)}
           new(row) == [row EXCEPT ![column] = value]
       IN  IF \A row \in old : updateCheck(uid, new(row))
           THEN /\ billsTable' = (billsTable \ old)
                                  \cup {new(row) : row \in old}
                /\ statement' = [op |-> "update", uid |-> uid,
                                 error |-> FALSE, rows |-> old]
           ELSE /\ statement' = [op |-> "update", uid |-> uid,
                                 error |-> TRUE, rows |-> {}]
                /\ UNCHANGED billsTable
    /\ steps' = steps + 1
    /\ last' = Event("update", NoBillId, column, "")
    /\ UNCHANGED <<pageVars, parseVars, reportVars, badges, libVars,
                   budget>>

Delete(uid, where) ==
    /\ steps < budget
    /\ LET old == {row \in matching(where) : deleteUsing(uid, row)}
       IN  /\ billsTable' = billsTable \ old
           /\ statement' = [op |-> "delete", uid |-> uid, error |-> FALSE,
                            rows |-> old]
    /\ steps' = steps + 1
    /\ last' = Event("delete", NoBillId, "", "")
    /\ UNCHANGED <<pageVars, parseVars, reportVars, badges, libVars,
                   budget>>

NextStore ==
    \/ \E uid \in Callers, where \in Wheres :
          Select(uid, where)
    \/ \E uid \in Callers, user_id \in Users : Insert(uid, user_id)
    \/ \E uid \in Callers, where \in Wheres,
          user_id \in Users : Update(uid, where, "user_id", user_id)
    \/ \E uid \in Callers, where \in Wheres,
          status \in {"pending", "paid"} : Update(uid, where, "status", status)
    \/ \E uid \in Callers, where \in Wheres :
          Delete(uid, where)

SpecStore == InitWith(MaxStatements) /\ [][NextStore]_vars

----------------------------------------------------------------------------
(* lib/ai-providers.ts and lib/pdf-converter.ts: one analysis *)

AIProviders == {"openai", "gemini", "claude"}

\* what the item "finanscan-settings" can hold: nothing, a text that is not
\* JSON, or the settings saved by the settings page or by an earlier
\* version of it that had no aiProvider
StoredSettings ==
    {NULL, Some([text |-> "not JSON"])}
    \cup {Some([aiApiKey |-> key]) : key \in {"", "sk-key"}}
    \cup {Some([aiApiKey |-> key, aiProvider |-> provider]) :
             key \in {"", "sk-key"}, provider \in AIProviders}

\* settings that ignore what is stored
defaultAISettings(item) == [apiKey |-> NULL, provider |-> "openai"]

\* getAISettings: JSON.parse of the item, aiApiKey || null and
\* aiProvider || 'openai'; the defaults when there is no item or the parse
\* throws
getAISettings(item) ==
    IF item = NULL \/ Has(item[1], "text")
    THEN [apiKey |-> NULL, provider |-> "openai"]
    ELSE [apiKey |-> IF Has(item[1], "aiApiKey") /\ item[1].aiApiKey # ""
                     THEN Some(item[1].aiApiKey) ELSE NULL,
          provider |-> IF Has(item[1], "aiProvider")
                       THEN item[1].aiProvider ELSE "openai"]

\* the files analyzeBillWithProvider can be called with
AnalyzedFiles ==
    DroppedFiles \cup
    { [name |-> <<"planilha", "csv">>, type |-> "text/csv", size |-> 204800] }

\* file.type.startsWith('image/')
startsWithImage(type) == type \in {"image/jpeg", "image/png", "image/gif"}

\* the URL each analyzeWith... function fetches
endpoint(provider) ==
    IF provider = "openai" THEN "https://api.openai.com/v1/chat/completions"
    ELSE IF provider = "gemini"
    THEN "https://generativelanguage.googleapis.com/v1beta/models/gemini-1.5-flash:generateContent"
    ELSE "https://api.anthropic.com/v1/messages"

\* the calls explored: the file, the key passed, and whether FileReader
\* reads the file or fires onerror
AnalysisCalls ==
    [file : AnalyzedFiles, apiKey : {"", "sk-key"}, readable : BOOLEAN]

\* what fetch can bring back: a reply with an ok status and the text of
\* its first choice, a reply with another status, or a rejection
Responses ==
    { [kind |-> "ok", content |-> SampleReply],
      [kind |-> "ok", content |-> <<Prose>>],
      [kind |-> "ok", content |-> <<>>],
      [kind |-> "not ok", content |-> <<>>],
      [kind |-> "rejected", content |-> <<>>] }

\* analyzeBillWithAI and analyzeBillWithProvider up to the await of fetch
AnalyzeBillWithAI ==
    /\ analysisCall # NULL
    /\ requests = <<>>
    /\ settled = NULL
    /\ LET file == analysisCall[1].file
           provider == getAISettings(settings).provider
           isPDF == file.type = "application/pdf"
       IN  IF analysisCall[1].apiKey = ""
           THEN /\ settled' = Some(Threw("Chave da API nao configurada"))
                /\ UNCHANGED requests
           ELSE IF ~startsWithImage(file.type) /\ ~isPDF
           THEN /\ settled' = Some(Threw("Apenas arquivos de imagem ou PDF sao suportados para analise."))
                /\ UNCHANGED requests
           ELSE IF ~analysisCall[1].readable
           THEN /\ settled' = Some(Threw("FileReader error"))
                /\ UNCHANGED requests
           ELSE /\ requests' = <<[backend |-> provider,
                                  url |-> endpoint(provider)]>>
                /\ UNCHANGED settled
    /\ last' = Event("analyzeBillWithAI", NoBillId, "", "")
    /\ UNCHANGED <<pageVars, parseVars, pageSideVars, pdfVars, authVars,
                   settings, analysisCall, steps, budget>>

\* analyzeWithOpenAI, analyzeWithGemini and analyzeWithClaude after the
\* await of fetch
Respond(response) ==
    /\ requests # <<>>
    /\ settled = NULL
    /\ settled' =
          Some(IF response.kind = "rejected" THEN Threw("Failed to fetch")
               ELSE IF response.kind = "not ok" THEN Threw("Erro da API: ...")
               ELSE IF requests[1].backend # "openai" /\ response.content = <<>>
               THEN Threw("Resposta vazia da API")
               ELSE parseAIResponse(response.content))
    /\ last' = Event("response", NoBillId, response.kind, "")
    /\ UNCHANGED <<pageVars, parseVars, pageSideVars, pdfVars, authVars,
                   settings, analysisCall, requests, steps, budget>>

InitAnalysis ==
    /\ InitPage(0)
    /\ content = <<>>
    /\ parsed = NULL
    /\ InitPageSide
    /\ settings \in StoredSettings
    /\ analysisCall \in {Some(call) : call \in AnalysisCalls}
    /\ requests = <<>>
    /\ settled = NULL
    /\ InitPdf
    /\ InitSignedIn

SpecAnalysis ==
    InitAnalysis
    /\ [][AnalyzeBillWithAI \/ (\E response \in Responses : Respond(response))]_vars

----------------------------------------------------------------------------
(* lib/pdf-converter.ts: convertPdfToJpeg *)

\* the least size in bytes a rasterized page must exceed
MinBlobSize == 1000

\* the PDF files converted
PdfFiles ==
    { [name |-> <<"conta", "pdf">>, type |-> "application/pdf", size |-> 204800],
      [name |-> <<"EXTRATO", "PDF">>, type |-> "application/pdf", size |-> 10485760] }

\* what canvas.toBlob of the rasterized page hands over: null, or a blob
\* of some size
RasterBlobs == {NULL, Some(0), Some(MinBlobSize), Some(MinBlobSize + 1), Some(250000)}

\* the calls explored: the file, and what pdf-lib, the canvas, html2canvas
\* and the two toBlob calls do with it
PdfCalls ==
    [file : PdfFiles,
     loads : BOOLEAN,            \* arrayBuffer, PDFDocument.load, copyPages, save
     pages : {0, 1},             \* pdfDoc.getPages().length
     context : BOOLEAN,          \* canvas.getContext('2d') is not null
     captured : BOOLEAN,         \* import('html2canvas') and html2canvas resolve
     blob : RasterBlobs,
     fallbackBlob : BOOLEAN]     \* toBlob of the placeholder is not null

\* originalFileName.replace(/\.pdf$/i, '_converted.jpg')
convertedName(name) ==
    IF name[Len(name)] \in {"pdf", "PDF", "Pdf"}
    THEN SubSeq(name, 1, Len(name) - 2)
         \o <<name[Len(name) - 1] \o "_converted", "jpg">>
    ELSE name

jpegFile(call, size, source) ==
    [name |-> convertedName(call.file.name), type |-> "image/jpeg",
     size |-> size, source |-> source]

\* createFallbackImage: the placeholder page, resolved or rejected, with
\* the iframe removed and the URL revoked in both branches
createFallbackImage(call) ==
    IF call.fallbackBlob
    THEN [resolved |-> TRUE, file |-> jpegFile(call, 30000, "placeholder"),
          removed |-> 1, revoked |-> 1]
    ELSE [resolved |-> FALSE, message |-> "Falha ao gerar imagem JPEG",
          removed |-> 1, revoked |-> 1]

\* blob && blob.size > 1000
meaningfulBlob(call) == call.blob # NULL /\ call.blob[1] > MinBlobSize

\* convertPdfPageToImage: one URL and one iframe are created; the page is
\* captured, or the placeholder is drawn
convertPdfPageToImage(call) ==
    IF ~call.captured THEN createFallbackImage(call)
    ELSE IF meaningfulBlob(call)
    THEN [resolved |-> TRUE, file |-> jpegFile(call, call.blob[1], "page"),
          removed |-> 1, revoked |-> 1]
    ELSE createFallbackImage(call)

\* convertPdfToJpeg: the result of the try block, or that of its catch
convertPdfToJpeg(call) ==
    LET failed(message, image) ==
            [convertedFile |-> call.file, originalFile |-> call.file,
             success |-> FALSE, error |-> message,
             created |-> image.created, removed |-> image.removed,
             revoked |-> image.revoked]
        none == [created |-> 0, removed |-> 0, revoked |-> 0]
    IN  IF ~call.loads THEN failed("Failed to parse PDF document", none)
        ELSE IF call.pages = 0 THEN failed("PDF nao contem paginas", none)
        ELSE IF ~call.context
        THEN failed("Nao foi possivel criar contexto do canvas", none)
        ELSE LET image == convertPdfPageToImage(call)
             IN  IF image.resolved
                 THEN [convertedFile |-> image.file, originalFile |-> call.file,
                       success |-> TRUE,
                       created |-> 1, removed |-> image.removed,
                       revoked |-> image.revoked]
                 ELSE failed(image.message,
                             [created |-> 1, removed |-> image.removed,
                              revoked |-> image.revoked])

\* one call of convertPdfToJpeg
ConvertPdfToJpeg ==
    /\ pdfCall # NULL
    /\ conversion = NULL
    /\ conversion' = Some(convertPdfToJpeg(pdfCall[1]))
    /\ last' = Event("convertPdfToJpeg", NoBillId, "", "")
    /\ UNCHANGED <<pageVars, parseVars, pageSideVars, providerVars, authVars,
                   pdfCall, steps, budget>>

InitConversion ==
    /\ InitPage(0)
    /\ content = <<>>
    /\ parsed = NULL
    /\ InitPageSide
    /\ InitProvider
    /\ pdfCall \in {Some(call) : call \in PdfCalls}
    /\ conversion = NULL
    /\ InitSignedIn

SpecConversion == InitConversion /\ [][ConvertPdfToJpeg]_vars

----------------------------------------------------------------------------
(* hooks/useAuth.tsx and pages/Index.tsx: who is signed in *)

MaxAuthSteps == 5

\* the sessions Supabase can hand over
Sessions == {NULL, Some([user |-> "ana"]), Some([user |-> "bruno"])}

\* session?.user ?? null
userOf(s) == IF s = NULL THEN NULL ELSE Some(s[1].user)

\* the events of onAuthStateChange and the session each one carries
AuthEvents ==
    [event : {"INITIAL_SESSION"}, session : Sessions]
    \cup [event : {"SIGNED_IN", "TOKEN_REFRESHED", "USER_UPDATED",
                   "PASSWORD_RECOVERY"},
          session : Sessions \ {NULL}]
    \cup [event : {"SIGNED_OUT"}, session : {NULL}]

\* an Index that shows the dashboard as soon as the lookup is over
indexViewOfAnyone(ld, u) == IF ld THEN "Carregando..." ELSE "dashboard"

\* Index: what the component returns
indexView(ld, u) ==
    IF ld THEN "Carregando..."
    ELSE IF u = NULL THEN "nothing"
    ELSE "dashboard"

\* Index: the condition of its effect, navigate('/auth')
indexRedirects(ld, u) == ~ld /\ u = NULL

\* an Auth page that sends every signed-in user to the dashboard
authRedirectsAnyone(u, recovery) == u # NULL

\* Auth: the condition of its effect, navigate('/')
authRedirects(u, recovery) == u # NULL /\ ~recovery

\* Auth: the form in the card
authView(recovery) == IF recovery THEN "Redefinir senha" ELSE "tabs"

\* the callback given to onAuthStateChange
AuthStateChange(e) ==
    /\ steps < budget
    /\ ~effectsPending
    /\ session' = e.session
    /\ user' = userOf(e.session)
    /\ loading' = FALSE
    /\ isPasswordRecovery' =
          IF e.event = "PASSWORD_RECOVERY" THEN TRUE ELSE isPasswordRecovery
    /\ effectsPending' = TRUE
    /\ last' = Event("onAuthStateChange", NoBillId, e.event, "")
    /\ steps' = steps + 1
    /\ UNCHANGED <<pageVars, parseVars, pageSideVars, providerVars, pdfVars,
                   sessionLookup, route, authPage, isLoading, authCalls,
                   budget>>

\* the continuation of supabase.auth.getSession()
GetSessionResolved(s) ==
    /\ sessionLookup = "pending"
    /\ ~effectsPending
    /\ sessionLookup' = "resolved"
    /\ session' = s
    /\ user' = userOf(s)
    /\ loading' = FALSE
    /\ effectsPending' = TRUE
    /\ last' = Event("getSession", NoBillId, "", "")
    /\ UNCHANGED <<pageVars, parseVars, pageSideVars, providerVars, pdfVars,
                   isPasswordRecovery, route, authPage, isLoading, authCalls,
                   steps, budget>>

\* the effects of the page on screen, run after a commit; a navigation
\* mounts the other page, whose effects run next
RunEffects ==
    /\ effectsPending
    /\ LET target == IF route = "/" /\ indexRedirects(loading, user) THEN "/auth"
                     ELSE IF route = "/auth"
                             /\ authRedirects(user, isPasswordRecovery) THEN "/"
                     ELSE route
       IN  /\ route' = target
           /\ effectsPending' = (target # route)
           /\ authPage' = IF target # route /\ target = "/auth"
                           THEN authPage + 1 ELSE authPage
           /\ isLoading' = IF target # route THEN FALSE ELSE isLoading
           /\ last' = Event("useEffect", NoBillId,
                            IF target # route THEN target ELSE "", "")
    /\ UNCHANGED <<pageVars, parseVars, pageSideVars, providerVars, pdfVars,
                   user, session, loading, isPasswordRecovery, sessionLookup,
                   authCalls, steps, budget>>

\* Index: the "Sair" button of the dashboard; a sign-out that succeeds
\* reaches the listener as SIGNED_OUT
SignOut(ok) ==
    /\ steps < budget
    /\ ~effectsPending
    /\ route = "/"
    /\ indexView(loading, user) = "dashboard"
    /\ noDialogOpen
    /\ IF ok
       THEN /\ session' = NULL
            /\ user' = NULL
            /\ loading' = FALSE
            /\ effectsPending' = TRUE
       ELSE UNCHANGED <<session, user, loading, effectsPending>>
    /\ last' = Event("signOut", NoBillId, "", IF ok THEN "ok" ELSE "error")
    /\ steps' = steps + 1
    /\ UNCHANGED <<pageVars, parseVars, pageSideVars, providerVars, pdfVars,
                   isPasswordRecovery, sessionLookup, route, authPage,
                   isLoading, authCalls, budget>>

\* Auth: the login form is submitted
OnLogin ==
    /\ steps < budget
    /\ ~effectsPending
    /\ route = "/auth"
    /\ authView(isPasswordRecovery) = "tabs"
    /\ ~isLoading
    /\ isLoading' = TRUE
    /\ authCalls' = Append(authCalls, [op |-> "signIn", page |-> authPage])
    /\ last' = Event("onLogin", NoBillId, "", "")
    /\ steps' = steps + 1
    /\ UNCHANGED <<pageVars, parseVars, pageSideVars, providerVars, pdfVars,
                   user, session, loading, isPasswordRecovery, sessionLookup,
                   route, effectsPending, authPage, budget>>

\* Auth: the new-password form is submitted
OnUpdatePassword ==
    /\ steps < budget
    /\ ~effectsPending
    /\ route = "/auth"
    /\ authView(isPasswordRecovery) = "Redefinir senha"
    /\ ~isLoading
    /\ isLoading' = TRUE
    /\ authCalls' = Append(authCalls, [op |-> "updatePassword", page |-> authPage])
    /\ last' = Event("onUpdatePassword", NoBillId, "", "")
    /\ steps' = steps + 1
    /\ UNCHANGED <<pageVars, parseVars, pageSideVars, providerVars, pdfVars,
                   user, session, loading, isPasswordRecovery, sessionLookup,
                   route, effectsPending, authPage, budget>>

\* signIn settles and onLogin goes on; a sign-in that succeeds has
\* reached the listener as SIGNED_IN
SignInSettled(k, s) ==
    /\ ~effectsPending
    /\ k \in 1..Len(authCalls)
    /\ authCalls[k].op = "signIn"
    /\ authCalls' = SubSeq(authCalls, 1, k - 1)
                    \o SubSeq(authCalls, k + 1, Len(authCalls))
    /\ isLoading' = IF authCalls[k].page = authPage THEN FALSE ELSE isLoading
    /\ IF s # NULL
       THEN /\ session' = s
            /\ user' = userOf(s)
            /\ loading' = FALSE
            /\ route' = "/"
            /\ effectsPending' = TRUE
            /\ last' = Event("signIn", NoBillId, "/", "ok")
       ELSE /\ last' = Event("signIn", NoBillId, "", "error")
            /\ UNCHANGED <<session, user, loading, route, effectsPending>>
    /\ UNCHANGED <<pageVars, parseVars, pageSideVars, providerVars, pdfVars,
                   isPasswordRecovery, sessionLookup, authPage, steps, budget>>

\* updatePassword settles and onUpdatePassword goes on
UpdatePasswordSettled(k, outcome) ==
    /\ ~effectsPending
    /\ k \in 1..Len(authCalls)
    /\ authCalls[k].op = "updatePassword"
    /\ authCalls' = SubSeq(authCalls, 1, k - 1)
                    \o SubSeq(authCalls, k + 1, Len(authCalls))
    /\ isLoading' = IF authCalls[k].page = authPage THEN FALSE ELSE isLoading
    /\ IF outcome = "ok"
       THEN /\ isPasswordRecovery' = FALSE
            /\ route' = "/"
            /\ effectsPending' = TRUE
            /\ last' = Event("updatePassword", NoBillId, "/", "ok")
       ELSE /\ last' = Event("updatePassword", NoBillId, "", outcome)
            /\ UNCHANGED <<isPasswordRecovery, route, effectsPending>>
    /\ UNCHANGED <<pageVars, parseVars, pageSideVars, providerVars, pdfVars,
                   user, session, loading, sessionLookup, authPage, steps,
                   budget>>

NextAuth ==
    \/ \E e \in AuthEvents : AuthStateChange(e)
    \/ \E s \in Sessions : GetSessionResolved(s)
    \/ RunEffects
    \/ \E ok \in BOOLEAN : SignOut(ok)
    \/ OnLogin
    \/ OnUpdatePassword
    \/ \E k \in 1..Len(authCalls), s \in Sessions : SignInSettled(k, s)
    \/ \E k \in 1..Len(authCalls), outcome \in {"ok", "error", "throws"} :
          UpdatePasswordSettled(k, outcome)

\* the application is opened at "/" or at "/auth": AuthProvider mounts, its
\* effect subscribes and starts the session lookup
InitAuth ==
    /\ InitPage(MaxAuthSteps)
    /\ content = <<>>
    /\ parsed = NULL
    /\ InitPageSide
    /\ InitProvider
    /\ InitPdf
    /\ session = NULL
    /\ user = NULL
    /\ loading = TRUE
    /\ isPasswordRecovery = FALSE
    /\ sessionLookup = "pending"
    /\ route \in {"/", "/auth"}
    /\ effectsPending = TRUE
    /\ authPage = IF route = "/auth" THEN 1 ELSE 0
    /\ isLoading = FALSE
    /\ authCalls = <<>>

SpecAuth == InitAuth /\ [][NextAuth]_vars

----------------------------------------------------------------------------
(* Properties *)

\* C1: in every state reached by adding bills, changing a status through
\* the confirmation dialog and deleting, every bill is paid if and only if
\* it has a paidAt, if and only if it has a paymentMethod.
C1_PaidIffPaidAtIffMethod ==
    \A i \in 1..Len(bills) :
        /\ bills[i].status = "paid" <=> Has(bills[i], "paidAt")
        /\ Has(bills[i], "paidAt") <=> Has(bills[i], "paymentMethod")

\* bill 4 has been reverted to pending and one of the bills 1..3 paid
C1_Witness ==
    /\ \E i \in 1..Len(bills) : bills[i].id = 4 /\ bills[i].status = "pending"
    /\ \E i \in 1..Len(bills) : bills[i].id \in 1..3 /\ bills[i].status = "paid"

\* C2: handleBillStatusChange called with newStatus = paid and no payment
\* method (undefined or "") fails: the list, and so the bill, is unchanged.
C2_NoMethodLeavesBillUnchanged ==
    [][ ( /\ last'.op = "handleBillStatusChange"
          /\ last'.arg = "paid"
          /\ Falsy(last'.method) )
        => bills' = bills ]_vars

\* C3: the confirm of a "pay" dialog fires only while a payment method is
\* selected, and the method handed to onBillStatusChange, and stored in the
\* bill, is the one chosen since that dialog was opened.
C3_ConfirmPaysWithTheMethodChosen ==
    [][ \A l \in Lists :
          ( /\ last'.op = "handleConfirmAction"
            /\ confirmDialog[l].isOpen
            /\ confirmDialog[l].action = "pay" )
          => /\ picked[l] \in PaymentMethods
             /\ last'.method = picked[l]
             /\ \A i \in 1..Len(bills) :
                   bills[i].id = confirmDialog[l].billId
                   => bills'[i].paymentMethod = picked[l] ]_vars

\* a payment confirmed with a method, after which the dialog is reset
C3_Witness ==
    /\ last.op = "handleConfirmAction"
    /\ last.arg = "pay"
    /\ last.method = "Cartao de Credito"
    /\ picked["Contas a Pagar"] = "Cartao de Credito"
    /\ selectedPaymentMethod["Contas a Pagar"] = ""
    /\ \E i \in 1..Len(bills) :
          bills[i].id = last.billId /\ bills[i].paymentMethod = last.method

markedPaid(bill, method, today) ==
    /\ bill.status = "paid"
    /\ Has(bill, "paymentMethod") /\ bill.paymentMethod = method
    /\ Has(bill, "paidAt") /\ bill.paidAt = today

\* C4: handleBillStatusChange(id, paid, m) with a non-empty m leaves the
\* bill paid, with paymentMethod m and paidAt the date of the call, whatever
\* its state before; so also when the call before was markPending of the
\* same bill and the bill carried an older paidAt.
C4_MarkPaidSetsMethodAndToday ==
    [][ ( /\ last'.op = "handleBillStatusChange"
          /\ last'.arg = "paid"
          /\ ~Falsy(last'.method) )
        => /\ Len(bills') = Len(bills)
           /\ \A i \in 1..Len(bills) :
                 bills[i].id = last'.billId
                 => markedPaid(bills'[i], last'.method, toISODate(now)) ]_vars

\* bill 4, paid on 2024-08-15 by PIX in the mock data, after a second call
\* that marks it paid by card
C4_Witness ==
    /\ steps = 2
    /\ last = Event("handleBillStatusChange", 4, "paid", "Cartao de Credito")
    /\ \E i \in 1..Len(bills) :
          /\ bills[i].id = 4
          /\ markedPaid(bills[i], "Cartao de Credito", toISODate(now))
          /\ bills[i].paidAt # Date20240815

keptFields == {"id", "beneficiary", "amount", "dueDate", "category", "barcode"}

\* after is before marked pending: no paidAt, no paymentMethod, the other
\* fields as they were
markedPending(before, after) ==
    /\ after.status = "pending"
    /\ ~Has(after, "paidAt") /\ ~Has(after, "paymentMethod")
    /\ \A k \in keptFields :
          /\ Has(after, k) <=> Has(before, k)
          /\ Has(before, k) => after[k] = before[k]

\* C5: marking a bill pending (the confirm of an "unpay" dialog) leaves
\* that bill pending without paidAt and paymentMethod, its other fields
\* unchanged, and every other bill of the list, and the order, unchanged.
C5_MarkPendingChangesOneBill ==
    [][ ( /\ last'.op = "handleConfirmAction"
          /\ last'.arg = "unpay" )
        => /\ Len(bills') = Len(bills)
           /\ \E k \in 1..Len(bills) :
                 /\ bills[k].id = last'.billId
                 /\ markedPending(bills[k], bills'[k])
                 /\ \A i \in 1..Len(bills) : i # k => bills'[i] = bills[i] ]_vars

\* C6: no two bills of the list have the same id, and no step changes the
\* id of a bill that stays in the list.
C6_IdsUniqueAndImmutable ==
    /\ [](\A i, j \in 1..Len(bills) : i # j => bills[i].id # bills[j].id)
    /\ [][ Len(bills') >= Len(bills)
           => \A i \in 1..Len(bills) : bills'[i].id = bills[i].id ]_vars

\* C7: a bill added by the form enters the list pending, without paidAt
\* and paymentMethod; a pending bill becomes paid only by the confirm of a
\* "pay" dialog opened for its id.
C7_AddedBillsArePending ==
    [][ /\ ( last'.op = "handleSubmit" /\ last'.arg = "accepted" )
           => /\ Len(bills') = Len(bills) + 1
              /\ bills'[Len(bills')].status = "pending"
              /\ ~Has(bills'[Len(bills')], "paidAt")
              /\ ~Has(bills'[Len(bills')], "paymentMethod")
        /\ \A j \in 1..Len(bills') :
              ( /\ bills'[j].status = "paid"
                /\ \A i \in 1..Len(bills) :
                      bills[i].id = bills'[j].id => bills[i].status = "pending" )
              => /\ last'.op = "handleConfirmAction"
                 /\ last'.arg = "pay"
                 /\ last'.billId = bills'[j].id ]_vars

\* the bill just added took its fields from an applied AI analysis
C7_Witness ==
    /\ last.op = "handleSubmit" /\ last.arg = "accepted"
    /\ Len(bills) = Len(mockBills) + 1
    /\ bills[Len(bills)].beneficiary = "Enel"
    /\ bills[Len(bills)].amount = 12550
    /\ bills[Len(bills)].status = "pending"

\* C8: a bill leaves the list only by the confirm of a dialog opened with
\* action delete for its id; that confirm removes exactly that bill and
\* leaves the other bills and their order unchanged; a cancel removes
\* nothing.
C8_DeleteRemovesExactlyOneBill ==
    [][ /\ \A i \in 1..Len(bills) :
              bills[i].id \notin billIds(bills')
              => /\ last'.op = "handleConfirmAction"
                 /\ last'.arg = "delete"
                 /\ last'.billId = bills[i].id
        /\ ( last'.op = "handleConfirmAction" /\ last'.arg = "delete" )
           => \E k \in 1..Len(bills) :
                 /\ bills[k].id = last'.billId
                 /\ bills' = removeAt(bills, k)
        /\ last'.op = "closeDialog" => bills' = bills ]_vars

\* C9: a submit with beneficiary, amount or due date missing is rejected
\* and leaves the list unchanged, in manual and in upload mode alike; so
\* every bill added has a positive amount.
C9_SubmitNeedsAllThreeFields ==
    [][ last'.op = "handleSubmit"
        => /\ missingRequired(currentForm)
              => bills' = bills /\ last'.arg = "rejected"
           /\ bills' # bills => bills'[Len(bills')].amount > 0 ]_vars

\* C9 as amended: the rejection holds in manual mode and whenever no file
\* is selected; a bill is added only from a complete form or from the
\* upload mode with a file selected; its amount is not negative.
C9_SubmitNeedsAllThreeFieldsOrAFile ==
    [][ last'.op = "handleSubmit"
        => /\ ( /\ missingRequired(currentForm)
                /\ uploadMode = "manual" \/ selectedFile = NULL )
              => bills' = bills /\ last'.arg = "rejected"
           /\ bills' # bills
              => /\ bills' = Append(bills, bills'[Len(bills')])
                 /\ bills'[Len(bills')].amount >= 0
                 /\ \/ ~missingRequired(currentForm)
                    \/ uploadMode = "upload" /\ selectedFile # NULL ]_vars

\* a submit rejected in manual mode although a file is selected
C9_Witness ==
    /\ last.op = "handleSubmit" /\ last.arg = "rejected"
    /\ uploadMode = "manual"
    /\ selectedFile # NULL
    /\ bills = mockBills

\* C10: totalPending + totalPaidOverall is the sum of the amounts of all
\* bills.
C10_TotalsAddUp ==
    floatAdd(stats(bills, now).totalPending,
             stats(bills, now).totalPaidOverall) = SumAmounts(bills)

\* the due date is today or one of the seven days after it
dueWithinNextSevenDays(bill, t) ==
    /\ toISODate(t) <= bill.dueDate
    /\ bill.dueDate <= toISODate(t) + 7

\* C11: upcomingCount, computed at the current date, is the number of
\* pending bills whose due date d satisfies today <= d <= today + 7 days.
C11_UpcomingCountsTheNextSevenDays ==
    stats(bills, now).upcomingCount =
        Cardinality({ i \in 1..Len(bills) :
                        /\ bills[i].status = "pending"
                        /\ dueWithinNextSevenDays(bills[i], now) })

RECURSIVE SumEntryAmounts(_)
SumEntryAmounts(entries) ==
    IF entries = <<>> THEN zeroNumber
    ELSE floatAdd(SumEntryAmounts(SubSeq(entries, 1, Len(entries) - 1)),
                  entries[Len(entries)].amount)

RECURSIVE SumEntryCounts(_)
SumEntryCounts(entries) ==
    IF entries = <<>> THEN 0
    ELSE SumEntryCounts(SubSeq(entries, 1, Len(entries) - 1))
         + entries[Len(entries)].count

\* one entry per distinct category of the bills, counts adding up to the
\* number of bills
oneEntryPerCategory(entries, bs) ==
    /\ \A j, k \in 1..Len(entries) :
          j # k => entries[j].category # entries[k].category
    /\ {entries[k].category : k \in 1..Len(entries)}
         = {categoryKey(bs[i]) : i \in 1..Len(bs)}
    /\ SumEntryCounts(entries) = Len(bs)

\* C12: the category breakdown has one entry per distinct category, its
\* counts sum to the number of bills and its amounts sum to
\* totalPending + totalPaidOverall.
C12_BreakdownAddsUp ==
    /\ oneEntryPerCategory(categoryData(bills), bills)
    /\ SumEntryAmounts(categoryData(bills))
         = floatAdd(stats(bills, now).totalPending,
                    stats(bills, now).totalPaidOverall)

\* the bills of a sequence that are due on a given day, in their order
dueOn(s, day) == SelectSeq(s, LAMBDA bill : bill.dueDate = day)

\* shown is source ordered by due date (direction 1: non-decreasing,
\* -1: non-increasing), bills due on the same day in the order of source
stablySortedBy(shown, source, direction) ==
    /\ Len(shown) = Len(source)
    /\ \A i, j \in 1..Len(shown) :
          i < j => direction * shown[i].dueDate <= direction * shown[j].dueDate
    /\ \A i \in 1..Len(source) :
          dueOn(shown, source[i].dueDate) = dueOn(source, source[i].dueDate)

filteredWithStatus(status) ==
    SelectSeq(filteredBills(bills, selectedCategory, selectedMonth),
              LAMBDA bill : bill.status = status)

\* C13: the pending list shows exactly the filtered pending bills by
\* non-decreasing due date, the paid list exactly the filtered paid bills by
\* non-increasing due date, bills of equal due date in the order of the
\* bill list.
C13_ListsSortedByDueDate ==
    /\ stablySortedBy(billsOf("Contas a Pagar", bills),
                      filteredWithStatus("pending"), 1)
    /\ stablySortedBy(billsOf("Contas Pagas", bills),
                      filteredWithStatus("paid"), -1)

\* a category filter is on and hides some pending bill, and the pending
\* list shows two bills due on the same day, the one added first on top
C13_Witness ==
    /\ selectedCategory # NULL
    /\ \E i, j \in 1..Len(billsOf("Contas a Pagar", bills)) :
          LET shown == billsOf("Contas a Pagar", bills)
          IN  /\ i < j
              /\ shown[i].dueDate = shown[j].dueDate
              /\ shown[i].id < shown[j].id
    /\ Len(billsOf("Contas a Pagar", bills)) < Len(allPendingBills(bills))

\* the reply has a "{" with a "}" somewhere behind it
hasBraces(reply) ==
    \E i, j \in 1..Len(reply) :
        i < j /\ reply[i].kind = "{" /\ reply[j].kind = "}"

\* the reply from its first "{" to its last "}"
braced(reply) ==
    LET first == CHOOSE i \in 1..Len(reply) :
                    /\ reply[i].kind = "{"
                    /\ \A k \in 1..(i - 1) : reply[k].kind # "{"
        final == CHOOSE j \in 1..Len(reply) :
                    /\ reply[j].kind = "}"
                    /\ \A k \in (j + 1)..Len(reply) : reply[k].kind # "}"
    IN  SubSeq(reply, first, final)

requiredFields == {"beneficiary", "amount", "dueDate"}

\* C17: parseAIResponse throws a parse error when the reply has no {...}
\* or the part located is not JSON, throws the incomplete-extraction error,
\* a different one, when the object lacks beneficiary, amount or dueDate,
\* and returns a candidate only when all three are there, with the amount
\* as parsed and the category of the reply (125.5 and "Energia" for the
\* example of the spec).
C17_ParseErrorsAndCandidate ==
    parsed # NULL =>
      LET r == parsed[1]
      IN  /\ ~hasBraces(content)
             => r.threw /\ r.message = NoJsonMessage
          /\ (hasBraces(content) /\ ~validJSON(braced(content)))
             => r.threw /\ r.message = ParseErrorMessage
          /\ ( /\ hasBraces(content)
               /\ validJSON(braced(content))
               /\ \E f \in requiredFields : ~Has(JSONparse(braced(content)), f) )
             => /\ r.threw
                /\ r.message = IncompleteMessage
                /\ r.message \notin {NoJsonMessage, ParseErrorMessage}
          /\ ~r.threw
             => /\ hasBraces(content)
                /\ validJSON(braced(content))
                /\ LET obj == JSONparse(braced(content))
                   IN  /\ \A f \in requiredFields : Has(obj, f)
                       /\ r.value.amount = parseFloat(obj.amount)
                       /\ obj.amount.kind = "num"
                          => r.value.amount = Number(obj.amount.value)
                       /\ truthy(obj, "category")
                          => r.value.category = obj.category
          /\ content = SampleReply
             => /\ ~r.threw
                /\ r.value.amount = Number(12550)
                /\ r.value.category = Str(<<"Energia">>)

\* the example of the spec has been parsed
C17_Witness ==
    /\ content = SampleReply
    /\ parsed # NULL
    /\ ~parsed[1].threw
    /\ parsed[1].value.beneficiary = Str(<<"Acme">>)

digitsOnly(text) == \A i \in 1..Len(text) : text[i] \in DigitChars

\* whenever parseAIResponse returns a barcode, it holds digits only
parsedBarcodesAreDigits ==
    \A reply \in Replies :
        LET r == parseAIResponse(reply)
        IN  (~r.threw /\ Has(r.value, "barcode")) => digitsOnly(r.value.barcode)

\* C14: after any sequence of form edits, applications of an analysis and
\* submits, the barcode of every bill is absent or a non-empty text of
\* digits only; a barcode returned by parseAIResponse holds digits only.
C14_BarcodesAreDigits ==
    /\ \A i \in 1..Len(bills) :
          Has(bills[i], "barcode")
          => bills[i].barcode # <<>> /\ digitsOnly(bills[i].barcode)
    /\ parsedBarcodesAreDigits

\* a bill was added whose barcode was typed with separators, and the form
\* is reset
C14_Witness ==
    /\ last.op = "handleSubmit" /\ last.arg = "accepted"
    /\ Has(bills[Len(bills)], "barcode")
    /\ bills[Len(bills)].barcode = <<"2", "3", "7", "9", "1">>
    /\ barcode = <<>>

\* a file of one of the three supported types and of at most 10 MB
supportedFile(file) ==
    /\ file.type \in {"application/pdf", "image/jpeg", "image/png"}
    /\ file.size <= 10485760

\* C15: a dropped file that is not PDF, JPEG or PNG, or is larger than
\* 10485760 bytes, is rejected by the uploader: handleFileSelect runs only
\* for a supported file, and the rejected drop leaves the selected file,
\* the analysis state and the requests in flight as they were.
C15_UnsupportedDropIsRejected ==
    [][/\ last'.op = "handleFileSelect"
          => selectedFile' # NULL /\ supportedFile(selectedFile'[1])
       /\ last'.op = "onDropRejected"
          => UNCHANGED <<fileVars, inFlight, formVars, bills>>]_vars

\* with a credential stored, a file one byte above the limit was dropped
\* and nothing is selected nor requested
C15_Witness ==
    /\ last.op = "onDropRejected" /\ last.arg = "file-too-large"
    /\ apiKey # NULL
    /\ selectedFile = NULL /\ ~isAnalyzing /\ inFlight = <<>>

\* C20: whatever the sequence of file selections, file removals, closings
\* and reopenings of the dialog and submits, at most one AI analysis is in
\* flight at any time.
C20_OneAnalysisInFlight == Len(inFlight) <= 1

\* C16: each file selection makes only the transitions of the intake
\* machine.  With no credential stored isAnalyzing is never set and no AI
\* request is issued; with a credential the selection sets isAnalyzing and
\* issues one request, and when a call settles isAnalyzing is false and the
\* dialog is in exactly one of AnalysisComplete (analysisComplete true,
\* result stored) after a success and AnalysisFailed (analysisComplete
\* false) after a failure.
C16_IntakeMachine ==
    [][/\ apiKey = NULL => ~isAnalyzing' /\ inFlight' = <<>>
       /\ last'.op = "handleFileSelect" /\ apiKey # NULL
          => isAnalyzing' /\ Len(inFlight') = Len(inFlight) + 1
       /\ last'.op = "analysisResolved"
          => ~isAnalyzing' /\ analysisComplete' /\ analysisResult' # NULL
       /\ last'.op = "analysisRejected"
          => ~isAnalyzing' /\ ~analysisComplete']_vars

\* C18: a successful analysis changes neither the bill list nor the form
\* fields beneficiary, amount, dueDate, category and barcode; a field takes
\* an extracted value only when the user applies the analysis (or types
\* that value), and the dialog writes a bill only in an accepted submit.
C18_AnalysisNeverSavesByItself ==
    [][/\ last'.op = "analysisResolved" => UNCHANGED <<bills, formVars>>
       /\ /\ analysisResult # NULL
          /\ beneficiary' # beneficiary
          /\ beneficiary' = analysisResult[1].beneficiary
          => last'.op \in {"handleApplyAnalysis", "setBeneficiary"}
       /\ /\ analysisResult # NULL
          /\ category' # category
          /\ category' = analysisResult[1].category
          => last'.op \in {"handleApplyAnalysis", "setCategory"}
       /\ last'.op = "handleApplyAnalysis" => bills' = bills
       /\ bills' # bills
          => last'.op = "handleSubmit" /\ last'.arg = "accepted"]_vars

\* the analysis of the selected file succeeded while the user had typed a
\* beneficiary of their own, which the form still shows
C18_Witness ==
    /\ last.op = "analysisResolved"
    /\ analysisComplete /\ analysisResult # NULL
    /\ analysisResult[1].beneficiary = "Enel"
    /\ beneficiary = "Acme"
    /\ bills = mockBills

\* C19: when the AI request or the parsing of its reply fails, isAnalyzing
\* is false again, no further request is issued, the bill list is
\* unchanged, and no form field changes but beneficiary, which changes only
\* if it was empty and then to "Boleto " followed by the file's name.
C19_FailureOnlyGuessesBeneficiary ==
    [][last'.op = "analysisRejected"
       => /\ ~isAnalyzing'
          /\ Len(inFlight') = Len(inFlight) - 1
          /\ bills' = bills
          /\ UNCHANGED <<amount, dueDate, category, barcode>>
          /\ beneficiary' # beneficiary
             => /\ beneficiary = ""
                /\ \E file \in DroppedFiles :
                      beneficiary' = "Boleto " \o file.name[1]]_vars

\* the request k was abandoned: the dialog is closed, or the file it
\* analyzes is no longer the selected one
abandoned(k) ==
    \/ ~isOpen
    \/ selectedFile = NULL
    \/ selectedFile[1] # inFlight[k].file

\* C21: when the AI call of an abandoned analysis (dialog closed or file
\* removed meanwhile) completes, the completion is discarded: it sets none
\* of analysisResult, aiSummary, analysisComplete and beneficiary.
C21_AbandonedAnalysisIsDiscarded ==
    [][last'.op \in {"analysisResolved", "analysisRejected"}
       => \A k \in 1..Len(inFlight) :
             inFlight' = removeAt(inFlight, k) /\ abandoned(k)
             => UNCHANGED <<analysisResult, aiSummary, analysisComplete,
                            beneficiary>>]_vars

\* C22: generateReport called while the start date or the end date is
\* empty fails before any rendering: it creates and saves no document,
\* never sets isGenerating, and leaves the dialog open.
C22_MissingRangeStopsTheReport ==
    [][/\ last'.op = "generateReport"
       /\ (startDate = NULL \/ endDate = NULL)
       => /\ savedReport' = savedReport
          /\ \A k \in 1..Len(reportEffects') :
                reportEffects'[k] \notin {"new jsPDF", "doc.save",
                                          "setIsGenerating(true)",
                                          "setIsGenerating(false)",
                                          "setIsOpen(false)"}
          /\ isGenerating' = isGenerating /\ ~isGenerating'
          /\ reportIsOpen']_vars

\* the report was asked for with a start date and no end date
C22_Witness ==
    /\ last.op = "generateReport" /\ last.arg = "missing"
    /\ startDate # NULL /\ endDate = NULL
    /\ reportIsOpen /\ savedReport = NULL

\* the bills a report over [start, end] has to list with a status
listedWith(status, start, end) ==
    SelectSeq(bills, LAMBDA bill :
        /\ start <= bill.dueDate /\ bill.dueDate <= end
        /\ bill.status = status)

\* C23: a saved report over [start, end] lists exactly the bills with
\* start <= dueDate <= end, each once, under paid or pending by its status;
\* totalPaid and totalPending are the sums of the amounts of the listed
\* paid and pending bills, and the counts are those of the listed bills.
C23_ReportCoversTheClosedInterval ==
    [][last'.op = "generateReport" /\ last'.arg = "saved"
       => LET doc == savedReport'[1]
              paid == listedWith("paid", startDate[1], endDate[1])
              pending == listedWith("pending", startDate[1], endDate[1])
          IN  /\ doc.paid = paid
              /\ doc.pending = pending
              /\ doc.totalPaid = SumAmounts(paid)
              /\ doc.totalPending = SumAmounts(pending)
              /\ doc.paidCount = Len(paid)
              /\ doc.pendingCount = Len(pending)
              /\ doc.count = Len(paid) + Len(pending)
              /\ doc.count = Cardinality({i \in 1..Len(bills) :
                                 /\ startDate[1] <= bills[i].dueDate
                                 /\ bills[i].dueDate <= endDate[1]})]_vars

\* a report from 2024-07-30 to 2024-08-15 was saved: it lists the paid bill
\* due on the start date and the pending bill due on the end date, and
\* leaves out the bills due before and after
C23_Witness ==
    /\ last.op = "generateReport" /\ last.arg = "saved"
    /\ savedReport # NULL
    /\ savedReport[1].start = Date20240730
    /\ savedReport[1].end = Date20240815
    /\ savedReport[1].paidCount = 1 /\ savedReport[1].paid[1].id = 5
    /\ savedReport[1].pendingCount = 1 /\ savedReport[1].pending[1].id = 3
    /\ Len(bills) > savedReport[1].count

\* C24: on the bills table a select returns, and an update or a delete
\* affects, only rows whose user_id is the caller's id, and no insert or
\* update leaves a row in the table whose user_id differs from the id of
\* the caller who wrote it.
C24_RowsBelongToTheCaller ==
    [][/\ \A row \in statement'.rows : ownsRow(statement'.uid, row)
       /\ \A row \in billsTable \ billsTable' :
             statement'.uid = Some(row.user_id)
       /\ \A row \in billsTable' \ billsTable :
             statement'.uid = Some(row.user_id)]_vars

\* both users have rows, and an update of every row by one of them
\* changed only their own
C24_Witness ==
    /\ statement.op = "update" /\ ~statement.error
    /\ statement.uid = Some("ana")
    /\ statement.rows # {}
    /\ \E row \in billsTable : row.user_id = "bruno" /\ row.status = "pending"
    /\ \E row \in billsTable : row.user_id = "ana" /\ row.status = "paid"

\* the first balanced {...} of a reply whose objects are flat: from its
\* first "{" to the first "}" behind it
firstObject(reply) ==
    LET first == CHOOSE i \in 1..Len(reply) :
                    /\ reply[i].kind = "{"
                    /\ \A k \in 1..(i - 1) : reply[k].kind # "{"
        close == CHOOSE j \in (first + 1)..Len(reply) :
                    /\ reply[j].kind = "}"
                    /\ \A k \in (first + 1)..(j - 1) : reply[k].kind # "}"
    IN  SubSeq(reply, first, close)

\* C25: whenever the first balanced {...} of the reply is a complete JSON
\* object with beneficiary, amount and dueDate, parseAIResponse returns
\* the candidate of that object, whatever prose, code fences or further
\* text with braces surrounds it.
C25_FirstObjectIsParsed ==
    ( /\ parsed # NULL
      /\ hasBraces(content)
      /\ validJSON(firstObject(content))
      /\ \A f \in requiredFields : truthy(JSONparse(firstObject(content)), f) )
    => /\ ~parsed[1].threw
       /\ parsed[1] = Returned(analysisOf(JSONparse(firstObject(content))))

\* the whole days from now to the due date, rounded up: the least d with
\* d days >= dueDate - now
daysRoundedUp(bill, t) ==
    CHOOSE d \in -1000..1000 :
        /\ d * TicksPerDay >= parseISODate(bill.dueDate) - t
        /\ (d - 1) * TicksPerDay < parseISODate(bill.dueDate) - t

\* C26: a pending bill is overdue iff d < 0, due soon iff 0 <= d <= 3 and
\* normal iff d > 3, for d = ceil((dueDate - now) / 1 day), exactly one of
\* the three; a paid bill shows the paid badge whatever its due date; and
\* computing the badges changes no bill.
C26_BadgeFollowsDaysUntilDue ==
    [][last'.op = "getStatusBadge"
       => /\ bills' = bills
          /\ Len(badges') = Len(bills)
          /\ \A i \in 1..Len(bills) :
                LET d == daysRoundedUp(bills[i], now)
                    text == badges'[i].text
                IN  /\ bills[i].status = "paid" <=> text = "Pago"
                    /\ bills[i].status = "pending"
                       => /\ text = "Vencido" <=> d < 0
                          /\ text = "Vence em" <=> (0 <= d /\ d <= 3)
                          /\ text = "Em" <=> d > 3
                          /\ text # "Vencido" => badges'[i].days = Some(d)]_vars

\* at noon of 2024-08-15 the lists show a paid bill, a bill due that
\* morning as due in 0 days, one due in 3 days and one due in 5 days, and
\* a bill reverted to pending as overdue
C26_Witness ==
    /\ last.op = "getStatusBadge"
    /\ now > parseISODate(Date20240815)
    /\ now < parseISODate(Date20240815 + 1)
    /\ \E i \in 1..Len(badges) : badges[i].text = "Pago"
    /\ \E i \in 1..Len(badges) : badges[i].text = "Vencido"
    /\ \E i \in 1..Len(badges) : badges[i] = [text |-> "Vence em", days |-> Some(0)]
    /\ \E i \in 1..Len(badges) : badges[i] = [text |-> "Vence em", days |-> Some(3)]
    /\ \E i \in 1..Len(badges) : badges[i] = [text |-> "Em", days |-> Some(5)]

\* the backend named by the stored settings, openai when there is none
storedBackend ==
    IF settings # NULL /\ Has(settings[1], "aiProvider")
    THEN settings[1].aiProvider ELSE "openai"

\* the analysis has run up to its request or its failure
analysisStarted == requests # <<>> \/ settled # NULL

\* the key is empty or the file is neither an image nor a PDF
notAnalyzable ==
    \/ analysisCall[1].apiKey = ""
    \/ analysisCall[1].file.type \notin
          {"application/pdf", "image/jpeg", "image/png", "image/gif"}

\* a status that is not a success is turned into an error, and nothing is
\* requested again
failuresAreNotRetried ==
    /\ Len(requests) <= 1
    /\ (last.op = "response" /\ last.arg \in {"not ok", "rejected"})
       => settled # NULL /\ settled[1].threw /\ Len(requests) = 1

\* C27: one analysis issues exactly one HTTP request, to the backend named
\* by the stored aiProvider (openai when nothing is stored or the item is
\* unreadable), and none when the key is empty or the file is neither an
\* image nor a PDF; a non-success status becomes an error and is never
\* retried.
C27_OneRequestToTheStoredBackend ==
    /\ analysisStarted
       => IF notAnalyzable THEN requests = <<>>
          ELSE Len(requests) = 1 /\ requests[1].backend = storedBackend
    /\ failuresAreNotRetried

\* C27 as the code has it: no request either when the file cannot be read
C27_OneRequestUnlessNothingToSend ==
    /\ analysisStarted
       => IF notAnalyzable \/ ~analysisCall[1].readable THEN requests = <<>>
          ELSE /\ Len(requests) = 1
               /\ requests[1].backend = storedBackend
               /\ requests[1].url = endpoint(storedBackend)
    /\ failuresAreNotRetried

\* with gemini stored, the one request for a PDF went to Gemini and came
\* back with an error status
C27_Witness ==
    /\ last.op = "response" /\ last.arg = "not ok"
    /\ settings # NULL /\ storedBackend = "gemini"
    /\ analysisCall[1].file.type = "application/pdf"
    /\ Len(requests) = 1 /\ requests[1].backend = "gemini"
    /\ settled # NULL /\ settled[1].threw

\* C28: convertPdfToJpeg always ends with an image to forward: in every
\* outcome the convertedFile returned is a JPEG image, never the original
\* PDF, the placeholder standing in whenever the page could not be
\* rasterized or came out at 1000 bytes or less, and the temporary iframe
\* and object URL are released exactly once.
C28_AlwaysAnImage ==
    conversion # NULL
    => /\ conversion[1].convertedFile.type = "image/jpeg"
       /\ conversion[1].convertedFile # conversion[1].originalFile
       /\ ( ~pdfCall[1].captured
            \/ pdfCall[1].blob = NULL
            \/ pdfCall[1].blob[1] <= 1000 )
          => conversion[1].convertedFile.source = "placeholder"
       /\ conversion[1].removed = 1
       /\ conversion[1].revoked = 1

\* the dashboard is what Index returns
dashboardShown == route = "/" /\ indexView(loading, user) = "dashboard"

\* C29: for any interleaving of auth-state events and the initial session
\* lookup, Index shows the dashboard only when loading is false and user
\* is not null; whenever loading is false and user is null nothing of the
\* dashboard is shown and the effect of Index navigates to /auth.
C29_DashboardOnlyWhenSignedIn ==
    /\ [](dashboardShown => ~loading /\ user # NULL)
    /\ [](route = "/" /\ ~loading /\ user = NULL
            => indexView(loading, user) = "nothing" /\ effectsPending)
    /\ [][ /\ route = "/" /\ ~loading /\ user = NULL
              => route' = "/auth" /\ last' = Event("useEffect", NoBillId, "/auth", "")
           /\ last'.op = "signOut" /\ steps' # steps
              => ~loading /\ user # NULL ]_vars

\* the lookup is still pending when an event has signed the user out
\* and Index has navigated to /auth
C29_Witness ==
    /\ last = Event("useEffect", NoBillId, "/auth", "")
    /\ sessionLookup = "pending"
    /\ ~loading
    /\ user = NULL
    /\ route = "/auth"

\* updatePassword has settled in this step
updatePasswordSettles ==
    /\ Len(authCalls') < Len(authCalls)
    /\ last'.op = "updatePassword"

====
